---- MODULE Spec2Model ----
(***************************************************************************)
(* Verification model of the Mantle privacy wallet: the ShieldedPool       *)
(* contract with its incremental Merkle tree, the indexer's off-chain      *)
(* tree replica, the event scanner, the withdrawal flow of the frontend    *)
(* and the stealth-address derivation of the SDK.                          *)
(*                                                                         *)
(* Hash values are modelled as free terms: a field element n is the        *)
(* 1-tuple <<n>>, the hash of l and r is the pair <<l, r>>.  Two terms are  *)
(* equal exactly when they were built the same way, which is what a        *)
(* collision-resistant hash provides.                                      *)
(***************************************************************************)
EXTENDS Integers, Sequences, FiniteSets, TLC

(***************************************************************************)
(* Bounds of the model.                                                    *)
(***************************************************************************)
\* Tree depth.  The sources fix it to 20 (MerkleTree.sol:10); the model
\* scales it down so that a full tree is reachable.
TREE_DEPTH == 3
\* Number of roots behind the current one that isKnownRoot looks at.  The
\* contract uses the literal 100 (MerkleTree.sol:81); the model scales it.
ROOT_HISTORY_SIZE == 2
\* Largest number of successful withdrawals recorded per nullifier hash.
MaxSuccess == 2
\* Largest number of deposits the pool accepts in a run of the pool model.
MaxDeposits == 3
\* Largest number of deposits in a run of the replica model.
MaxReplicaLeaves == 5

\* Highest block number the chain reaches.
MaxHead == 2

\* process.env.BLOCKS_PER_SCAN: '1000' by default in the source.
BLOCKS_PER_SCAN == 1

\* process.env.START_BLOCK: '0' by default.
START_BLOCK == 0

\* The native value and the tokens the sender starts with.
MaxFunds == 3

\* Order of the scalar field of the commitments.  The source uses the
\* BN254 scalar field (client.ts:468); the model scales it down.
FIELD_SIZE == 5
\* Largest number of deposit notes generated in a run.
MaxNotes == 2
\* Largest number of note deposits in a run of the pool with its provers.
MaxNoteDeposits == 2

\* The commitments users deposit and the nullifier hashes they reveal.
Commitments == {1, 2}
NullifierHashes == {1, 2}
\* Supported denominations and the amounts callers try.
Denominations == {1, 2}
Amounts == {1, 2, 3}
\* Recipients: 0 is address(0).
Recipients == {0, 1}

RECURSIVE Pow2(_)
Pow2(n) == IF n = 0 THEN 1 ELSE 2 * Pow2(n - 1)

MAX_LEAVES == Pow2(TREE_DEPTH)

Levels == 0 .. (TREE_DEPTH - 1)

(***************************************************************************)
(* Field elements and the two-input hash.                                  *)
(***************************************************************************)
Fe(n) == <<n>>

Zero == Fe(0)

\* A value that is never a root of the tree.
BogusRoot == Fe(999999)

hashLeftRight(left, right) == <<left, right>>

VARIABLES
    \* ShieldedPool / MerkleTree.Tree storage
    nextLeafIndex,
    filledSubtrees,
    roots,
    currentRootIndex,
    nullifiers,
    poolBalance,
    \* outcome of the latest transaction sent to the pool
    lastTx,
    \* history: successful withdrawals per nullifier hash
    successCount,
    \* the commitments of the Deposit events, in leafIndex order
    chainLeaves,
    \* MerkleTreeBuilder.leaves of the indexer
    leaves,
    \* the latest answer of MerkleTreeBuilder.getMerklePath
    path,
    \* the recipient's keypairs
    viewingKeypair,
    spendingKeypair,
    \* the sender's latest ephemeral keypair and generateStealthAddress result
    ephemeralKeypair,
    stealthInfo,
    \* the shared secret each side computed
    senderSecret,
    recipientSecret,
    \* the recipient's latest scan of the announcement
    scanResult,
    \* the latest call of generateKeypair: its bytes and what it gave
    keygen,
    \* ShieldPage.handleWithdraw: position, stages entered, locals, result
    uiPc,
    uiSteps,
    uiNote,
    uiRecipient,
    uiMerklePath,
    uiContractRoot,
    uiProverInput,
    uiTx,
    uiOutcome,
    uiWithdrawing,
    \* what waitForTransactionReceipt gave in the latest attempt
    uiReceipt,
    \* the indexer the latest attempt asked for the path, and its answer
    uiFetch,
    \* the nullifier hashes the pool has recorded for the user's notes, and
    \* those of them the indexer has stored a Withdrawal row for
    spentNullifiers,
    indexedNullifiers,
    \* the indexed events of every block of the chain
    chain,
    \* the indexer's tables
    announcements,
    deposits,
    withdrawals,
    scannerState,
    \* EventScanner: the flag, the position and the locals of scanEvents
    isScanning,
    scanPc,
    scanFrom,
    scanTo,
    scanLogs,
    \* the executions of scanEvents that passed the isScanning test and have
    \* not reached finally, and what the latest timer tick did
    scanRuns,
    lastTick,
    \* history: the event streams the running scan has queried, and the
    \* (block, stream) pairs queried by scans that reached the cursor update
    scanQueried,
    covered,
    \* the latest upsert: its table, whether the key was stored, its result
    lastUpsert,
    \* WebSocketManager: the connected clients, the message types each socket
    \* received, and the message types broadcast() was called with
    wsClients,
    wsReceived,
    wsBroadcasts,
    \* StealthPay and its chain: native and token balances, the allowance the
    \* sender gave StealthPay, the latest call, and the native value
    \* successfully sent to the stealth address so far
    payEth,
    payTok,
    payAllowance,
    payLast,
    paySent,
    \* the deposit notes generateDepositNote returned, in order
    notes,
    \* history: the value each deposit paid in, in leafIndex order, and the
    \* leaf and amount of every successful withdrawal
    depositValues,
    payouts,
    \* the root the orchestrator read from the contract with the index it had,
    \* and the withdraw later sent with that root
    verified,
    staleTx,
    \* whether the scanner has started, and the Deposit events mined at or before its START_BLOCK
    scanStart,
    \* the running calls of buildFromDatabase: whether findMany was answered, and the rows it gave
    rebuilds,
    \* the rows of the indexer's Announcement table, in the order the scanner stored them
    indexed,
    \* the answer of the last scan for payments (scanAnnouncementsIndexed or the receive page)
    payments,
    \* what the scan loop does with each announcement that can be stored,
    \* under each pair of keys
    verdicts,
    \* ReentrancyGuard._status of the pool
    guardStatus,
    \* the withdraw whose recipient.call is executing
    payout,
    \* the latest call the recipient's callback made into the pool
    nested

poolVars == <<nextLeafIndex, filledSubtrees, roots, currentRootIndex,
              nullifiers, poolBalance, lastTx, successCount, chainLeaves>>

replicaVars == <<leaves, path>>

stealthVars == <<viewingKeypair, spendingKeypair, ephemeralKeypair, stealthInfo,
                 senderSecret, recipientSecret, scanResult, keygen>>

uiVars == <<uiPc, uiSteps, uiNote, uiRecipient, uiMerklePath, uiContractRoot,
            uiProverInput, uiTx, uiOutcome, uiWithdrawing, uiReceipt,
            uiFetch, spentNullifiers, indexedNullifiers>>

dbVars == <<announcements, deposits, withdrawals, scannerState>>

scannerVars == <<isScanning, scanPc, scanFrom, scanTo, scanLogs, scanRuns,
                 lastTick, scanQueried, covered, lastUpsert>>

wsVars == <<wsClients, wsReceived, wsBroadcasts>>

payVars == <<payEth, payTok, payAllowance, payLast, paySent>>

noteVars == <<notes>>

\* The variables outside the pool, the wallet and the indexer.
bindVars == <<depositValues, payouts>>

staleVars == <<verified, staleTx>>

alignVars == <<scanStart>>

rebuildVars == <<rebuilds>>

announceVars == <<indexed, payments, verdicts>>

reenterVars == <<guardStatus, payout, nested>>

lateVars == <<staleVars, alignVars, rebuildVars, announceVars, reenterVars>>

restVars == <<payVars, noteVars, bindVars, lateVars>>

(***************************************************************************)
(* MerkleTree library                                                      *)
(***************************************************************************)
\* initialize: the loop that fills filledSubtrees with the zero hashes.
RECURSIVE InitLoop(_, _, _)
InitLoop(i, currentZeroValue, fs) ==
    IF i = TREE_DEPTH
    THEN [fs |-> fs, top |-> currentZeroValue]
    ELSE InitLoop(i + 1, hashLeftRight(currentZeroValue, currentZeroValue),
                  [fs EXCEPT ![i] = currentZeroValue])

initialize(zeroValue) ==
    LET r == InitLoop(0, zeroValue, [l \in Levels |-> Zero])
    IN  [nextLeafIndex |-> 0,
         filledSubtrees |-> r.fs,
         roots |-> [i \in 0 .. MAX_LEAVES |-> IF i = 0 THEN r.top ELSE Zero],
         currentRootIndex |-> 0]

\* insert: the loop over the levels.  At an even index the old
\* filledSubtrees[i] is read as the right input and then overwritten.
RECURSIVE InsertLoop(_, _, _, _)
InsertLoop(i, currentIndex, currentLevelHash, fs) ==
    IF i = TREE_DEPTH
    THEN [fs |-> fs, top |-> currentLevelHash]
    ELSE IF currentIndex % 2 = 0
         THEN InsertLoop(i + 1, currentIndex \div 2,
                         hashLeftRight(currentLevelHash, fs[i]),
                         [fs EXCEPT ![i] = currentLevelHash])
         ELSE InsertLoop(i + 1, currentIndex \div 2,
                         hashLeftRight(fs[i], currentLevelHash),
                         fs)

\* mutant: insert returns the index after the one it filled
insertReturnsNext(tree, leaf) ==
    LET r == InsertLoop(0, tree.nextLeafIndex, leaf, tree.filledSubtrees)
    IN  [nextLeafIndex |-> tree.nextLeafIndex + 1,
         filledSubtrees |-> r.fs,
         roots |-> [tree.roots EXCEPT ![tree.currentRootIndex + 1] = r.top],
         currentRootIndex |-> tree.currentRootIndex + 1,
         leafIndex |-> tree.nextLeafIndex + 1]

\* insert on a tree record; the caller checks leafIndex < MAX_LEAVES.
\* leafIndex is the value insert returns.
insert(tree, leaf) ==
    LET r == InsertLoop(0, tree.nextLeafIndex, leaf, tree.filledSubtrees)
    IN  [nextLeafIndex |-> tree.nextLeafIndex + 1,
         filledSubtrees |-> r.fs,
         roots |-> [tree.roots EXCEPT ![tree.currentRootIndex + 1] = r.top],
         currentRootIndex |-> tree.currentRootIndex + 1,
         leafIndex |-> tree.nextLeafIndex]

\* insert: the values of self.filledSubtrees[i] the loop reads, level by
\* level (as `right` at an even index, as `left` at an odd one).
RECURSIVE InsertReads(_, _, _, _)
InsertReads(i, currentIndex, currentLevelHash, fs) ==
    IF i = TREE_DEPTH
    THEN <<>>
    ELSE IF currentIndex % 2 = 0
         THEN <<fs[i]>> \o InsertReads(i + 1, currentIndex \div 2,
                                       hashLeftRight(currentLevelHash, fs[i]),
                                       [fs EXCEPT ![i] = currentLevelHash])
         ELSE <<fs[i]>> \o InsertReads(i + 1, currentIndex \div 2,
                                       hashLeftRight(fs[i], currentLevelHash),
                                       fs)

\* The tree storage after initialize and the insertion of the first n of
\* the given leaves.
RECURSIVE TreeAfter(_, _)
TreeAfter(lvs, n) ==
    IF n = 0 THEN initialize(Zero)
    ELSE insert(TreeAfter(lvs, n - 1), lvs[n])

\* The lowest index isKnownRoot looks at.
MinIndexShort(currentIndex) ==
    IF currentIndex > ROOT_HISTORY_SIZE
    THEN currentIndex - ROOT_HISTORY_SIZE + 2
    ELSE 0

\* mutant: only the current root is looked at
MinIndexCurrentOnly(currentIndex) == currentIndex

MinIndex(currentIndex) ==
    IF currentIndex > ROOT_HISTORY_SIZE
    THEN currentIndex - ROOT_HISTORY_SIZE
    ELSE 0

\* mutant: the scan starts below the current root
isKnownRootInSkipsCurrent(rts, cur, root) ==
    IF root = Zero
    THEN FALSE
    ELSE \E i \in MinIndex(cur) .. (cur - 1) : rts[i] = root

isKnownRootIn(rts, cur, root) ==
    IF root = Zero
    THEN FALSE
    ELSE \E i \in MinIndex(cur) .. cur : rts[i] = root

isKnownRoot(root) == isKnownRootIn(roots, currentRootIndex, root)

getRoot == roots[currentRootIndex]

getNextLeafIndex == nextLeafIndex

isNullifierUsed(nullifierHash) == nullifierHash \in nullifiers

Tree == [nextLeafIndex |-> nextLeafIndex, filledSubtrees |-> filledSubtrees,
         roots |-> roots, currentRootIndex |-> currentRootIndex]

(***************************************************************************)
(* ShieldedPool                                                            *)
(***************************************************************************)
NoTx == [op |-> "none", outcome |-> "none", nullifierHash |-> 0,
         paid |-> 0, usedBefore |-> FALSE, knownBefore |-> FALSE,
         amount |-> 0, value |-> 0, leafIndex |-> 0]

PoolInit ==
    LET t == initialize(Zero)
    IN  /\ nextLeafIndex = t.nextLeafIndex
        /\ filledSubtrees = t.filledSubtrees
        /\ roots = t.roots
        /\ currentRootIndex = t.currentRootIndex
        /\ nullifiers = {}
        /\ poolBalance = 0
        /\ lastTx = NoTx
        /\ successCount = [n \in NullifierHashes |-> 0]
        /\ chainLeaves = <<>>

\* mutant: msg.value is compared before the denomination is looked up
DepositOutcomeValueFirst(amount, value) ==
    IF value # amount THEN "InvalidAmount"
    ELSE IF amount \notin Denominations THEN "InvalidDenomination"
    ELSE IF ~(nextLeafIndex < MAX_LEAVES) THEN "TreeFull"
    ELSE "ok"

\* mutant: insert does not require leafIndex < MAX_LEAVES
DepositOutcomeNoCapacity(amount, value) ==
    IF amount \notin Denominations THEN "InvalidDenomination"
    ELSE IF value # amount THEN "InvalidAmount"
    ELSE "ok"

DepositOutcome(amount, value) ==
    IF amount \notin Denominations THEN "InvalidDenomination"
    ELSE IF value # amount THEN "InvalidAmount"
    ELSE IF ~(nextLeafIndex < MAX_LEAVES) THEN "TreeFull"
    ELSE "ok"

\* deposit(commitment, amount) payable, msg.value = value
Deposit(commitment, amount, value) ==
    LET outcome == DepositOutcome(amount, value)
        t == insert(Tree, Fe(commitment))
    IN  /\ lastTx' = [NoTx EXCEPT !.op = "deposit", !.outcome = outcome,
                                   !.amount = amount, !.value = value,
                                   !.leafIndex =
                                      IF outcome = "ok" THEN t.leafIndex
                                      ELSE 0]
        /\ IF outcome = "ok"
           THEN /\ nextLeafIndex' = t.nextLeafIndex
                /\ filledSubtrees' = t.filledSubtrees
                /\ roots' = t.roots
                /\ currentRootIndex' = t.currentRootIndex
                /\ poolBalance' = poolBalance + value
                /\ chainLeaves' = Append(chainLeaves, Fe(commitment))
           ELSE UNCHANGED <<nextLeafIndex, filledSubtrees, roots,
                            currentRootIndex, poolBalance, chainLeaves>>
        /\ UNCHANGED <<nullifiers, successCount>>

\* The checks of withdraw in the order the contract makes them.
\* proofOk is the verifier's answer; callOk is whether the recipient accepts
\* the value transfer.
WithdrawOutcomeNoNullifierCheck(root, nullifierHash, recipient, amount, proofOk, callOk) ==
    IF amount \notin Denominations THEN "InvalidDenomination"
    ELSE IF ~isKnownRoot(root) THEN "InvalidMerkleRoot"
    ELSE IF recipient = 0 THEN "ZeroAddress"
    ELSE IF ~proofOk THEN "InvalidProof"
    ELSE IF ~(callOk /\ poolBalance >= amount) THEN "TransferFailed"
    ELSE "ok"

WithdrawOutcome(root, nullifierHash, recipient, amount, proofOk, callOk) ==
    IF amount \notin Denominations THEN "InvalidDenomination"
    ELSE IF ~isKnownRoot(root) THEN "InvalidMerkleRoot"
    ELSE IF nullifierHash \in nullifiers THEN "NullifierAlreadyUsed"
    ELSE IF recipient = 0 THEN "ZeroAddress"
    ELSE IF ~proofOk THEN "InvalidProof"
    ELSE IF ~(callOk /\ poolBalance >= amount) THEN "TransferFailed"
    ELSE "ok"

\* mutant: a failed transfer returns without reverting, so the nullifierHash
\* stays recorded
WithdrawKeepsNullifier(root, nullifierHash, recipient, amount, proofOk, callOk) ==
    LET outcome == WithdrawOutcome(root, nullifierHash, recipient, amount,
                                   proofOk, callOk)
    IN  /\ outcome = "ok" => successCount[nullifierHash] < MaxSuccess
        /\ IF outcome = "ok"
           THEN /\ nullifiers' = nullifiers \cup {nullifierHash}
                /\ poolBalance' = poolBalance - amount
                /\ successCount' = [successCount EXCEPT ![nullifierHash] = @ + 1]
           ELSE /\ nullifiers' =
                     IF outcome = "TransferFailed"
                     THEN nullifiers \cup {nullifierHash}
                     ELSE nullifiers
                /\ UNCHANGED <<poolBalance, successCount>>
        /\ lastTx' = [op |-> "withdraw", outcome |-> outcome,
                      nullifierHash |-> nullifierHash,
                      paid |-> poolBalance - poolBalance',
                      usedBefore |-> nullifierHash \in nullifiers,
                      knownBefore |-> isKnownRoot(root),
                      amount |-> amount,
                      value |-> 0,
                      leafIndex |-> 0]
        /\ UNCHANGED <<nextLeafIndex, filledSubtrees, roots, currentRootIndex,
                       chainLeaves>>

\* withdraw(proof, root, nullifierHash, recipient, amount)
Withdraw(root, nullifierHash, recipient, amount, proofOk, callOk) ==
    LET outcome == WithdrawOutcome(root, nullifierHash, recipient, amount,
                                   proofOk, callOk)
    IN  /\ outcome = "ok" => successCount[nullifierHash] < MaxSuccess
        /\ IF outcome = "ok"
           THEN /\ nullifiers' = nullifiers \cup {nullifierHash}
                /\ poolBalance' = poolBalance - amount
                /\ successCount' = [successCount EXCEPT ![nullifierHash] = @ + 1]
           ELSE UNCHANGED <<nullifiers, poolBalance, successCount>>
        /\ lastTx' = [op |-> "withdraw", outcome |-> outcome,
                      nullifierHash |-> nullifierHash,
                      paid |-> poolBalance - poolBalance',
                      usedBefore |-> nullifierHash \in nullifiers,
                      knownBefore |-> isKnownRoot(root),
                      amount |-> amount,
                      value |-> 0,
                      leafIndex |-> 0]
        /\ UNCHANGED <<nextLeafIndex, filledSubtrees, roots, currentRootIndex,
                       chainLeaves>>

\* Roots a caller may present: every root the tree ever had, zero, and a
\* value that never was a root.
RootInputs == {roots[i] : i \in 0 .. currentRootIndex} \cup {Zero, BogusRoot}

PoolDeposit ==
    \E c \in Commitments, a \in Amounts, v \in Denominations :
        /\ DepositOutcome(a, v) = "ok" => Len(chainLeaves) < MaxDeposits
        /\ Deposit(c, a, v)

\* The denomination of the deposits that fill the tree.
CapacityAmount == CHOOSE a \in Denominations : \A b \in Denominations : a <= b

\* A deposit of a supported denomination with the matching value, as many
\* of them as callers send: the tree is the only limit.
CapacityDeposit ==
    \E c \in Commitments : Deposit(c, CapacityAmount, CapacityAmount)

PoolWithdraw ==
    \E r \in RootInputs, n \in NullifierHashes, rc \in Recipients,
       a \in Amounts, proofOk \in BOOLEAN, callOk \in BOOLEAN :
        Withdraw(r, n, rc, a, proofOk, callOk)

(***************************************************************************)
(* The indexer's database tables                                           *)
(***************************************************************************)
\* The row `create` describes for a log of each event.
createRow(log) ==
    [transactionHash |-> log.transactionHash,
     logIndex |-> log.logIndex,
     blockNumber |-> log.blockNumber,
     commitment |-> log.commitment,
     leafIndex |-> log.leafIndex,
     nullifierHash |-> log.nullifierHash]

\* The columns of each table that carry a unique index besides the key
\* (transactionHash, logIndex).
UniqueColumns(kind) ==
    CASE kind = "Deposit" -> {"commitment", "leafIndex"}
      [] kind = "Withdrawal" -> {"nullifierHash"}
      [] OTHER -> {}

hasKey(table, row) ==
    \E i \in 1 .. Len(table) :
        /\ table[i].transactionHash = row.transactionHash
        /\ table[i].logIndex = row.logIndex

\* mutant: upsert creates the row whether or not its key is stored
upsertAlwaysCreates(table, row, uniqueColumns) ==
    IF \E i \in 1 .. Len(table), col \in uniqueColumns :
           table[i][col] = row[col]
    THEN [ok |-> FALSE, table |-> table]
    ELSE [ok |-> TRUE, table |-> Append(table, row)]

\* prisma.X.upsert({where: {transactionHash_logIndex}, create, update: {}}):
\* a stored key leaves the table as it is, a new key appends the row unless
\* a unique column rejects it.
upsert(table, row, uniqueColumns) ==
    IF hasKey(table, row)
    THEN [ok |-> TRUE, table |-> table]
    ELSE IF \E i \in 1 .. Len(table), col \in uniqueColumns :
                table[i][col] = row[col]
    THEN [ok |-> FALSE, table |-> table]
    ELSE [ok |-> TRUE, table |-> Append(table, row)]

(***************************************************************************)
(* MerkleTreeBuilder of the indexer (off-chain replica)                    *)
(***************************************************************************)
\* zeroHashes[0] = '0', zeroHashes[i + 1] = hash(zeroHashes[i], zeroHashes[i])
RECURSIVE zeroHashes(_)
zeroHashes(i) ==
    IF i = 0 THEN Zero
    ELSE hashLeftRight(zeroHashes(i - 1), zeroHashes(i - 1))

\* The inner loop over the levels that getCurrentRoot and getMerklePath of the
\* replaying builder run for one leaf.
RECURSIVE ReplayLevelsZeroPadded(_, _, _, _)
ReplayLevelsZeroPadded(level, currentIndex, currentHash, fs) ==
    IF level = TREE_DEPTH
    THEN [fs |-> fs, top |-> currentHash]
    ELSE IF currentIndex % 2 = 0
         THEN ReplayLevelsZeroPadded(level + 1, currentIndex \div 2,
                           hashLeftRight(currentHash, zeroHashes(level)),
                           [fs EXCEPT ![level] = currentHash])
         ELSE ReplayLevelsZeroPadded(level + 1, currentIndex \div 2,
                           hashLeftRight(fs[level], currentHash),
                           fs)

RECURSIVE ReplayLevels(_, _, _, _)
ReplayLevels(level, currentIndex, currentHash, fs) ==
    IF level = TREE_DEPTH
    THEN [fs |-> fs, top |-> currentHash]
    ELSE IF currentIndex % 2 = 0
         THEN LET right == fs[level]
              IN  ReplayLevels(level + 1, currentIndex \div 2,
                               hashLeftRight(currentHash, right),
                               [fs EXCEPT ![level] = currentHash])
         ELSE ReplayLevels(level + 1, currentIndex \div 2,
                           hashLeftRight(fs[level], currentHash),
                           fs)

\* The outer loop: the state after the first n leaves of lvs were replayed,
\* starting from filledSubtrees = zeroHashes.slice(0, TREE_DEPTH).
RECURSIVE Replay(_, _)
Replay(lvs, n) ==
    IF n = 0
    THEN [fs |-> [l \in Levels |-> zeroHashes(l)], top |-> zeroHashes(TREE_DEPTH)]
    ELSE ReplayLevels(0, n - 1, lvs[n], Replay(lvs, n - 1).fs)

\* getCurrentRoot of the replaying builder.
getCurrentRoot(lvs) ==
    IF Len(lvs) = 0
    THEN zeroHashes(TREE_DEPTH)
    ELSE Replay(lvs, Len(lvs)).top

\* mutant: the filledSubtrees are saved after leaf leafIdx is replayed
filledSubtreesHistoryAfter(lvs, leafIdx) == Replay(lvs, leafIdx + 1).fs

\* filledSubtreesHistory[leafIdx]: the filledSubtrees saved before leaf leafIdx
\* is replayed.
filledSubtreesHistory(lvs, leafIdx) == Replay(lvs, leafIdx).fs

RECURSIVE PathIndexLoop(_, _)
PathIndexLoop(level, currentIndex) ==
    IF level = TREE_DEPTH THEN <<>>
    ELSE <<(IF currentIndex % 2 = 0 THEN 0 ELSE 1)>>
         \o PathIndexLoop(level + 1, currentIndex \div 2)

NoPath == [found |-> FALSE]

\* getMerklePath once the deposit row was found; targetLeafIndex is its
\* leafIndex (0-based).
getMerklePath(lvs, targetLeafIndex) ==
    IF targetLeafIndex >= Len(lvs)
    THEN NoPath
    ELSE [found |-> TRUE,
          pathElements |-> [l \in 1 .. TREE_DEPTH |->
                              filledSubtreesHistory(lvs, targetLeafIndex)[l - 1]],
          pathIndices |-> PathIndexLoop(0, targetLeafIndex),
          root |-> getCurrentRoot(lvs),
          leaf |-> lvs[targetLeafIndex + 1],
          leafIndex |-> targetLeafIndex]

\* prisma.deposit.findUnique({where: {commitment}}): the rows of the deposit
\* table with that commitment (none or one, commitment being unique).
findUniqueByCommitment(table, commitment) ==
    {i \in 1 .. Len(table) : table[i].commitment = commitment}

\* mutant: the leaf index of the row is not compared with the size of the
\* in-memory tree
getMerklePathByCommitmentUnchecked(table, lvs, commitment) ==
    LET found == findUniqueByCommitment(table, commitment)
    IN  IF found = {}
        THEN NoPath
        ELSE [found |-> TRUE,
              leafIndex |-> table[CHOOSE i \in found : TRUE].leafIndex]

\* getMerklePath(commitment): null when the deposit table has no row for
\* the commitment or the row's leafIndex is not below leaves.length.
getMerklePathByCommitment(table, lvs, commitment) ==
    LET found == findUniqueByCommitment(table, commitment)
    IN  IF found = {}
        THEN NoPath
        ELSE getMerklePath(lvs, table[CHOOSE i \in found : TRUE].leafIndex)

\* prisma.deposit.findMany({orderBy: {leafIndex: 'asc'}}) and the loop that
\* pushes every row's commitment: the leaves in the order of leafIndex.
leavesOfTable(table) ==
    [k \in 1 .. Len(table) |->
        LET i == CHOOSE j \in 1 .. Len(table) :
                   Cardinality({m \in 1 .. Len(table) :
                                  table[m].leafIndex < table[j].leafIndex})
                     = k - 1
        IN  Fe(table[i].commitment)]

\* getCurrentRoot of packages/indexer/src/scanner/merkle-tree.ts: the tree is
\* built level by level, a missing right node is the zero hash of the level.
NextLevel(currentLevel, level) ==
    LET levelSize == (Len(currentLevel) + 1) \div 2
    IN  [i \in 1 .. levelSize |->
            LET leftIndex == (i - 1) * 2
                rightIndex == leftIndex + 1
                left == currentLevel[leftIndex + 1]
                right == IF rightIndex < Len(currentLevel)
                         THEN currentLevel[rightIndex + 1]
                         ELSE zeroHashes(level)
            IN  hashLeftRight(left, right)]

RECURSIVE LevelLoop(_, _)
LevelLoop(currentLevel, level) ==
    IF level = TREE_DEPTH THEN currentLevel
    ELSE LevelLoop(NextLevel(currentLevel, level), level + 1)

getCurrentRootByLevels(lvs) ==
    IF Len(lvs) = 0
    THEN zeroHashes(TREE_DEPTH)
    ELSE LevelLoop(lvs, 0)[1]

(***************************************************************************)
(* MerkleTreeChecker of the withdraw circuit                               *)
(***************************************************************************)
RECURSIVE CheckerHashes(_, _, _, _)
CheckerHashes(i, cur, pathElements, pathIndices) ==
    IF i > TREE_DEPTH THEN cur
    ELSE CheckerHashes(i + 1,
                       IF pathIndices[i] = 0
                       THEN hashLeftRight(cur, pathElements[i])
                       ELSE hashLeftRight(pathElements[i], cur),
                       pathElements, pathIndices)

\* The constraint root === hashes[levels].
MerkleTreeChecker(leaf, pathElements, pathIndices, root) ==
    CheckerHashes(1, leaf, pathElements, pathIndices) = root

(***************************************************************************)
(* The replica next to the chain                                           *)
(***************************************************************************)
\* The commitment of the next deposit: one that was never deposited, or
\* commitment 1 again.
ReplicaCommitments == {1, Len(chainLeaves) + 1}

\* A deposit the contract accepts.
ReplicaDeposit ==
    \E c \in ReplicaCommitments, a \in Denominations :
        /\ Len(chainLeaves) < MaxReplicaLeaves
        /\ DepositOutcome(a, a) = "ok"
        /\ Deposit(c, a, a)
        /\ UNCHANGED <<replicaVars, deposits>>

\* The log of the Deposit event with leafIndex k, one deposit per block.
DepositLog(k, commitment) ==
    [kind |-> "Deposit",
     blockNumber |-> START_BLOCK + k + 1,
     transactionHash |-> <<START_BLOCK + k + 1, 0>>,
     logIndex |-> 0,
     commitment |-> commitment,
     leafIndex |-> k,
     nullifierHash |-> 0]

\* scanDeposits stores the next Deposit event of the chain; the events are
\* stored in chain order, and an upsert the table rejects stops the scan.
StoreDeposit ==
    /\ Len(deposits) < Len(chainLeaves)
    /\ LET k == Len(deposits)
           result == upsert(deposits,
                            createRow(DepositLog(k, chainLeaves[k + 1][1])),
                            UniqueColumns("Deposit"))
       IN  /\ result.ok
           /\ deposits' = result.table
    /\ UNCHANGED <<poolVars, replicaVars>>

\* buildFromDatabase: this.leaves becomes the commitments of the stored
\* deposits in leafIndex order.
buildFromDatabase ==
    /\ leaves' = leavesOfTable(deposits)
    /\ leaves' # leaves
    /\ UNCHANGED <<poolVars, path, deposits>>

\* GET /api/merkle-path/:commitment, for a deposited commitment or one that
\* never was deposited.
QueryMerklePath ==
    \E commitment \in 1 .. (Len(chainLeaves) + 1) :
        /\ path' = getMerklePathByCommitment(deposits, leaves, commitment)
        /\ UNCHANGED <<poolVars, leaves, deposits>>

ReplicaInit == leaves = <<>> /\ path = NoPath

(***************************************************************************)
(* The indexer's WebSocket server and its periodic rebuild                 *)
(***************************************************************************)
\* The sockets that can connect.
WsSockets == {1}

WsInit ==
    /\ wsClients = {}
    /\ wsReceived = [c \in WsSockets |-> {}]
    /\ wsBroadcasts = {}

\* wss.on('connection'): the socket joins the clients and is sent the
\* welcome message.
wsConnection ==
    \E c \in WsSockets \ wsClients :
        /\ wsClients' = wsClients \cup {c}
        /\ wsReceived' = [wsReceived EXCEPT ![c] = {"connected"}]
        /\ UNCHANGED wsBroadcasts

\* ws.on('close') / ws.on('error'): the socket leaves the clients.
wsClose ==
    \E c \in wsClients :
        /\ wsClients' = wsClients \ {c}
        /\ UNCHANGED <<wsReceived, wsBroadcasts>>

\* broadcast(message): the message is sent to every client (the clients of
\* the model are the sockets whose readyState is OPEN).
broadcast(type) ==
    /\ wsReceived' = [c \in WsSockets |->
                        IF c \in wsClients THEN wsReceived[c] \cup {type}
                        ELSE wsReceived[c]]
    /\ wsBroadcasts' = wsBroadcasts \cup {type}
    /\ UNCHANGED wsClients

broadcastAnnouncement == broadcast("announcement")

broadcastDeposit == broadcast("deposit")

broadcastWithdrawal == broadcast("withdrawal")

broadcastStatus == broadcast("status")

\* The timer of main: the tree is rebuilt from the database, then the
\* status is broadcast.
rebuildTimer ==
    /\ leaves' = leavesOfTable(deposits)
    /\ broadcastStatus
    /\ UNCHANGED <<poolVars, path, deposits>>

(***************************************************************************)
(* Stealth addresses (SDK): curve arithmetic                               *)
(*                                                                         *)
(* secp256k1 is modelled by the curve of the same form, y^2 = x^3 + 7,     *)
(* over the field of 13 elements.  Its group has prime order 7, so every   *)
(* point except infinity generates it, as on secp256k1.                    *)
(***************************************************************************)
Curve == [p |-> 13, n |-> 7, b |-> 7, G |-> <<7, 5>>]

\* The point at infinity (ProjectivePoint.ZERO).
Infinity == <<>>

\* Values a 32-byte string can hold: scalars below the curve order and
\* some values at and above it.
Bytes32 == 0 .. (Curve.n + 3)

ModP(a) == a % Curve.p

ModInv(a) == CHOOSE c \in 1 .. (Curve.p - 1) : ModP(a * c) = 1

OnCurve(x, y) == ModP(y * y) = ModP(x * x * x + Curve.b)

\* ProjectivePoint.add
PointAdd(P, Q) ==
    IF P = Infinity THEN Q
    ELSE IF Q = Infinity THEN P
    ELSE IF P[1] = Q[1] /\ ModP(P[2] + Q[2]) = 0 THEN Infinity
    ELSE LET lambda == IF P = Q
                       THEN ModP(3 * P[1] * P[1] * ModInv(ModP(2 * P[2])))
                       ELSE ModP((Q[2] - P[2] + Curve.p)
                                 * ModInv(ModP(Q[1] - P[1] + Curve.p)))
             x3 == ModP(lambda * lambda + 2 * Curve.p - P[1] - Q[1])
             y3 == ModP(lambda * (P[1] - x3 + Curve.p) + Curve.p - P[2])
         IN  <<x3, y3>>

RECURSIVE ScalarMul(_, _)
ScalarMul(k, P) == IF k = 0 THEN Infinity ELSE PointAdd(P, ScalarMul(k - 1, P))

\* A scalar ProjectivePoint.multiply and fromPrivateKey accept.
ValidScalar(k) == 0 < k /\ k < Curve.n

\* toRawBytes(true): parity byte and x.  toRawBytes(false): 0x04, x and y.
\* Both throw on the point at infinity.
toRawBytes(P, isCompressed) ==
    IF P = Infinity THEN <<"error">>
    ELSE IF isCompressed
         THEN <<(IF P[2] % 2 = 0 THEN 2 ELSE 3), P[1]>>
         ELSE <<4, P[1], P[2]>>

\* ProjectivePoint.fromHex: 33 bytes are decompressed (y is the square root
\* with the parity of the prefix), 65 bytes are taken as they are.
fromHex(bytes) ==
    IF Len(bytes) = 3
    THEN <<bytes[2], bytes[3]>>
    ELSE LET x == bytes[2]
             ys == {y \in 0 .. (Curve.p - 1) :
                       OnCurve(x, y) /\ (y % 2 = 0) = (bytes[1] = 2)}
         IN  <<x, CHOOSE y \in ys : TRUE>>

\* sha256 of a compressed point, as a 32-byte number.  Any fixed function
\* would do; this one also yields 0 and values above the curve order.
sha256(bytes) ==
    (bytes[1] * 5 + bytes[2] * bytes[2] * 3 + bytes[2] + 1) % (Curve.n + 4)

\* keccak_256 of x || y, reduced to its last 20 bytes.
keccak20(x, y) == x * Curve.p + y

\* getAddress: the checksummed form of an address.
getAddress(a) == [hex |-> a, form |-> "checksum"]

toLowerCase(address) == [address EXCEPT !.form = "lower"]

\* isAddress accepts the checksummed and the single-case forms.
validateAddress(address) == address.form \in {"checksum", "lower"}

(***************************************************************************)
(* keys.ts, ecdh.ts, stealth.ts                                            *)
(***************************************************************************)
Failed == [ok |-> FALSE]

\* generateKeypair: privateKeyBytes are the entropy; fromPrivateKey throws
\* unless 0 < key < n.
generateKeypair(entropy) ==
    IF ~ValidScalar(entropy) THEN Failed
    ELSE LET publicKeyPoint == ScalarMul(entropy, Curve.G)
         IN  [ok |-> TRUE,
              privateKey |-> entropy,
              publicKey |-> toRawBytes(publicKeyPoint, FALSE),
              compressedPublicKey |-> toRawBytes(publicKeyPoint, TRUE)]

compressPublicKey(publicKey) ==
    IF Len(publicKey) = 2 THEN publicKey
    ELSE toRawBytes(fromHex(publicKey), TRUE)

uncompressPublicKey(publicKey) ==
    IF Len(publicKey) = 3 THEN publicKey
    ELSE toRawBytes(fromHex(publicKey), FALSE)

generateStealthMetaAddress(viewingPublicKey, spendingPublicKey) ==
    [viewingPublicKey |-> compressPublicKey(viewingPublicKey),
     spendingPublicKey |-> compressPublicKey(spendingPublicKey)]

\* A variant that multiplies the generator instead of the public key.
computeSharedSecretOfBase(privateKey, publicKey) ==
    IF ~ValidScalar(privateKey) THEN Failed
    ELSE LET sharedPoint == ScalarMul(privateKey, Curve.G)
         IN  [ok |-> TRUE, secret |-> sha256(toRawBytes(sharedPoint, TRUE))]

\* computeSharedSecret: sha256 of the compressed point privateKey * publicKey.
computeSharedSecret(privateKey, publicKey) ==
    IF ~ValidScalar(privateKey) THEN Failed
    ELSE LET publicKeyPoint == fromHex(publicKey)
             sharedPoint == ScalarMul(privateKey, publicKeyPoint)
         IN  IF sharedPoint = Infinity THEN Failed
             ELSE [ok |-> TRUE,
                   secret |-> sha256(toRawBytes(sharedPoint, TRUE))]

computeSharedSecretSender(ephemeralPrivateKey, recipientViewingPublicKey) ==
    computeSharedSecret(ephemeralPrivateKey, recipientViewingPublicKey)

computeSharedSecretRecipient(viewingPrivateKey, ephemeralPublicKey) ==
    computeSharedSecret(viewingPrivateKey, ephemeralPublicKey)

\* View tag: the leading part of the shared secret.
generateViewTag(sharedSecret) == sharedSecret \div 4

\* deriveStealthPublicKey: spendPub + sharedSecret * G, uncompressed.
\* BASE.multiply throws unless 0 < sharedSecret < n.
deriveStealthPublicKey(spendingPublicKey, sharedSecret) ==
    IF ~ValidScalar(sharedSecret) THEN <<"error">>
    ELSE LET spendPubPoint == fromHex(uncompressPublicKey(spendingPublicKey))
             sharedPoint == ScalarMul(sharedSecret, Curve.G)
         IN  toRawBytes(PointAdd(spendPubPoint, sharedPoint), FALSE)

\* publicKeyToAddress: keccak of the key without its prefix byte, last 20
\* bytes, checksummed.
publicKeyToAddress(publicKey) ==
    LET uncompressed == uncompressPublicKey(publicKey)
    IN  getAddress(keccak20(uncompressed[2], uncompressed[3]))

\* generateStealthAddress with the ephemeral key drawn as `entropy`.
generateStealthAddress(recipientMetaAddress, schemeId, entropy) ==
    IF schemeId # 1 THEN Failed
    ELSE LET ephemeral == generateKeypair(entropy)
         IN  IF ~ephemeral.ok THEN Failed
             ELSE LET shared == computeSharedSecretSender(
                                    ephemeral.privateKey,
                                    recipientMetaAddress.viewingPublicKey)
                  IN  IF ~shared.ok THEN Failed
                      ELSE LET stealthPublicKey ==
                                   deriveStealthPublicKey(
                                       recipientMetaAddress.spendingPublicKey,
                                       shared.secret)
                           IN  IF stealthPublicKey = <<"error">> THEN Failed
                               ELSE [ok |-> TRUE,
                                     stealthAddress |->
                                         publicKeyToAddress(stealthPublicKey),
                                     ephemeralPublicKey |->
                                         ephemeral.compressedPublicKey,
                                     viewTag |-> generateViewTag(shared.secret)]

\* A variant that adds without reducing mod n.
computeStealthPrivateKeyNoMod(viewingPrivateKey, spendingPrivateKey, ephemeralPublicKey) ==
    LET shared == computeSharedSecretRecipient(viewingPrivateKey,
                                               ephemeralPublicKey)
    IN  IF ~shared.ok THEN Failed
        ELSE [ok |-> TRUE, privateKey |-> spendingPrivateKey + shared.secret]

\* computeStealthPrivateKey: (spendingPriv + sharedSecret) mod n.
computeStealthPrivateKey(viewingPrivateKey, spendingPrivateKey, ephemeralPublicKey) ==
    LET shared == computeSharedSecretRecipient(viewingPrivateKey,
                                               ephemeralPublicKey)
    IN  IF ~shared.ok THEN Failed
        ELSE [ok |-> TRUE,
              privateKey |-> (spendingPrivateKey + shared.secret) % Curve.n]

\* checkStealthAddress: "error" stands for a thrown exception.
checkStealthAddress(stealthPrivateKey, expectedStealthAddress) ==
    IF ~validateAddress(expectedStealthAddress) THEN "error"
    ELSE IF ~ValidScalar(stealthPrivateKey) THEN "error"
    ELSE LET publicKeyPoint == ScalarMul(stealthPrivateKey, Curve.G)
             stealthPublicKey == toRawBytes(publicKeyPoint, FALSE)
             derivedAddress == publicKeyToAddress(stealthPublicKey)
         IN  IF toLowerCase(derivedAddress) = toLowerCase(expectedStealthAddress)
             THEN "match" ELSE "nomatch"

(***************************************************************************)
(* Sender and recipient of a stealth payment                               *)
(***************************************************************************)
NotScanned == [done |-> FALSE]

metaAddress ==
    generateStealthMetaAddress(viewingKeypair.publicKey,
                               spendingKeypair.publicKey)

\* generateKeypair was not called yet.
NoKeygen == [called |-> FALSE]

\* A call of generateKeypair(options), as generateViewingKeypair and
\* generateSpendingKeypair make it: privateKeyBytes are options.entropy if
\* the caller gave it, else randomBytes(32); what fromPrivateKey throws
\* escapes to the caller.
GenerateKeypairCall ==
    /\ \E withEntropy \in BOOLEAN, privateKeyBytes \in Bytes32 :
         keygen' = [called |-> TRUE,
                    sampled |-> ~withEntropy,
                    privateKeyBytes |-> privateKeyBytes,
                    keypair |-> generateKeypair(privateKeyBytes)]
    /\ UNCHANGED <<viewingKeypair, spendingKeypair, ephemeralKeypair,
                   stealthInfo, senderSecret, recipientSecret, scanResult>>

StealthInit ==
    /\ \E k \in 1 .. (Curve.n - 1) : viewingKeypair = generateKeypair(k)
    /\ \E k \in 1 .. (Curve.n - 1) : spendingKeypair = generateKeypair(k)
    /\ ephemeralKeypair = Failed
    /\ stealthInfo = Failed
    /\ senderSecret = Failed
    /\ recipientSecret = Failed
    /\ scanResult = NotScanned
    /\ keygen = NoKeygen

StealthIdle ==
    /\ viewingKeypair = Failed
    /\ spendingKeypair = Failed
    /\ ephemeralKeypair = Failed
    /\ stealthInfo = Failed
    /\ senderSecret = Failed
    /\ recipientSecret = Failed
    /\ scanResult = NotScanned
    /\ keygen = NoKeygen

\* The sender calls generateStealthAddress(metaAddress, schemeId); the 32
\* random bytes of the ephemeral key are `entropy`.
StealthSend ==
    \E entropy \in Bytes32, schemeId \in {1, 2} :
        LET kp == generateKeypair(entropy)
        IN  /\ ephemeralKeypair' = kp
            /\ stealthInfo' = generateStealthAddress(metaAddress, schemeId, entropy)
            /\ senderSecret' =
                 IF kp.ok
                 THEN computeSharedSecretSender(kp.privateKey,
                                                metaAddress.viewingPublicKey)
                 ELSE Failed
            /\ recipientSecret' = Failed
            /\ scanResult' = NotScanned
            /\ UNCHANGED <<viewingKeypair, spendingKeypair, keygen>>

\* The recipient computes the shared secret from the ephemeral public key.
StealthEcdhRecipient ==
    /\ ephemeralKeypair.ok
    /\ recipientSecret' =
         computeSharedSecretRecipient(viewingKeypair.privateKey,
                                      ephemeralKeypair.compressedPublicKey)
    /\ UNCHANGED <<viewingKeypair, spendingKeypair, ephemeralKeypair,
                   stealthInfo, senderSecret, scanResult, keygen>>

\* The recipient derives the stealth private key for the announced payment
\* and checks it against the announced address.
StealthScan ==
    /\ stealthInfo.ok
    /\ LET key == computeStealthPrivateKey(viewingKeypair.privateKey,
                                           spendingKeypair.privateKey,
                                           stealthInfo.ephemeralPublicKey)
       IN  scanResult' =
             [done |-> TRUE,
              key |-> key,
              check |-> IF key.ok
                        THEN checkStealthAddress(key.privateKey,
                                                 stealthInfo.stealthAddress)
                        ELSE "error"]
    /\ UNCHANGED <<viewingKeypair, spendingKeypair, ephemeralKeypair,
                   stealthInfo, senderSecret, recipientSecret, keygen>>

(***************************************************************************)
(* The withdrawal orchestrator: ShieldPage.handleWithdraw                   *)
(*                                                                         *)
(* One action per await of the handler.  uiSteps records the stages the    *)
(* handler entered, in the vocabulary ParseNote, FetchPath, VerifyRoot,    *)
(* BuildWitness, Prove, Submit, Confirm.                                   *)
(***************************************************************************)
\* The texts the user can paste as a deposit note.
NoteTexts == {"note1", "note2", "garbage"}

\* JSON.parse(withdrawNote): throws on text that is not JSON.
JSONparse(text) ==
    CASE text = "note1" ->
           [ok |-> TRUE, commitment |-> 1, nullifierHash |-> 1, amount |-> 1]
      [] text = "note2" ->
           [ok |-> TRUE, commitment |-> 2, nullifierHash |-> 2, amount |-> 2]
      [] OTHER -> Failed

\* The root strings the indexer's answer can carry.
RootStrings == {"1", "0x1", "2", "bad"}

\* BigInt(string): decimal and 0x-prefixed text parse, anything else throws.
BigIntOk(s) == s \in {"1", "0x1", "2"}

BigInt(s) ==
    CASE s = "1" -> 1
      [] s = "0x1" -> 1
      [] s = "2" -> 2
      [] OTHER -> 0

\* The roots readContract(getRoot) can answer.
ContractRoots == {1, 2}

\* The account of the connected wallet and the recipient field of the form
\* ("" when left empty).
WalletAddress == "wallet"

RecipientInputs == {"", "other"}

NoFlowPath == [found |-> FALSE]

NoProverInput == [called |-> FALSE]

NoFlowTx == [sent |-> FALSE]

\* No request for a path was made in this attempt.
NoFetch ==
    [requested |-> FALSE, initialised |-> FALSE, stored |-> 0, built |-> 0,
     pathFound |-> FALSE, status |-> 0, message |-> ""]

UiIdle ==
    /\ uiPc = "idle"
    /\ uiSteps = <<>>
    /\ uiNote = Failed
    /\ uiRecipient = ""
    /\ uiMerklePath = NoFlowPath
    /\ uiContractRoot = 0
    /\ uiProverInput = NoProverInput
    /\ uiTx = NoFlowTx
    /\ uiOutcome = "none"
    /\ uiWithdrawing = FALSE
    /\ uiReceipt = "none"
    /\ uiFetch = NoFetch
    /\ spentNullifiers = {}
    /\ indexedNullifiers = {}

\* catch (err): a receipt-not-found error counts as a success, anything else
\* is shown as the error.
catchWithdrawError(errName) ==
    IF errName = "TransactionReceiptNotFoundError"
    THEN "likelySuccess"
    ELSE "error"

\* finally: setWithdrawing(false), after the attempt ended with `outcome`.
EndAttempt(outcome) ==
    /\ uiPc' = "idle"
    /\ uiOutcome' = outcome
    /\ uiWithdrawing' = FALSE

\* The handler up to its first await: the wallet guard, setWithdrawing(true),
\* JSON.parse of the note and the choice of the recipient.
handleWithdraw ==
    /\ uiPc = "idle"
    /\ \E walletConnected \in BOOLEAN, text \in NoteTexts,
          recipientInput \in RecipientInputs :
         IF ~walletConnected
         THEN /\ uiOutcome' = "WalletNotConnected"
              /\ UNCHANGED <<uiPc, uiSteps, uiNote, uiRecipient, uiMerklePath,
                             uiContractRoot, uiProverInput, uiTx,
                             uiWithdrawing, uiReceipt, uiFetch>>
         ELSE LET note == JSONparse(text)
              IN  /\ uiSteps' = <<"ParseNote">>
                  /\ uiNote' = note
                  /\ uiMerklePath' = NoFlowPath
                  /\ uiContractRoot' = 0
                  /\ uiProverInput' = NoProverInput
                  /\ uiTx' = NoFlowTx
                  /\ uiReceipt' = "none"
                  /\ uiFetch' = NoFetch
                  /\ IF note.ok
                     THEN /\ uiRecipient' =
                               IF recipientInput = "" THEN WalletAddress
                               ELSE recipientInput
                          /\ uiPc' = "fetchPath"
                          /\ uiOutcome' = "none"
                          /\ uiWithdrawing' = TRUE
                     ELSE /\ uiRecipient' = ""
                          /\ EndAttempt(catchWithdrawError("SyntaxError"))
    /\ UNCHANGED <<spentNullifiers, indexedNullifiers>>

\* The deposits of the pool when a withdrawal is attempted, in leaf order:
\* the commitments of note1 and note2.
FlowCommitments == <<1, 2>>

\* The deposit table once the scanner stored the first `stored` of them.
IndexerTable(stored) ==
    [k \in 1 .. stored |-> createRow(DepositLog(k - 1, FlowCommitments[k]))]

\* The indexer a request can meet: whether initializeAPI gave the API its
\* tree, how many deposits the scanner stored, and how many of these the
\* latest buildFromDatabase put in the in-memory tree.
IndexerStates ==
    {st \in [initialised : BOOLEAN,
             stored : 0 .. Len(FlowCommitments),
             built : 0 .. Len(FlowCommitments)] : st.built <= st.stored}

\* GET /api/merkle-path/:commitment: 503 without a tree, 404 when
\* getMerklePath returns null, 500 when the query throws, else the path.
apiMerklePath(st, commitment, queryThrows) ==
    IF ~st.initialised
    THEN [status |-> 503, pathFound |-> FALSE]
    ELSE IF queryThrows
    THEN [status |-> 500, pathFound |-> FALSE]
    ELSE LET table == IndexerTable(st.stored)
             merklePath ==
               getMerklePathByCommitment(
                 table, leavesOfTable(IndexerTable(st.built)), commitment)
         IN  IF ~merklePath.found
             THEN [status |-> 404, pathFound |-> FALSE]
             ELSE [status |-> 200, pathFound |-> TRUE]

\* IndexerClient.getMerklePath: the message of the Error thrown on a response
\* that is not ok ("" when the response is ok).
getMerklePathError(status) ==
    IF status = 200 THEN ""
    ELSE IF status = 404 THEN "Commitment not found in Merkle tree"
    ELSE "Failed to fetch Merkle path"

\* await indexer.getMerklePath(note.commitment): the request meets the
\* indexer in one of its states, or fetch itself fails (status 0); the path
\* of a 200 answer carries the root as a string.
handleWithdrawFetchPath ==
    /\ uiPc = "fetchPath"
    /\ uiSteps' = Append(uiSteps, "FetchPath")
    /\ \E st \in IndexerStates, queryThrows \in BOOLEAN,
          fetchThrows \in BOOLEAN :
         LET response ==
               IF fetchThrows
               THEN [status |-> 0, pathFound |-> FALSE]
               ELSE apiMerklePath(st, uiNote.commitment, queryThrows)
         IN  /\ uiFetch' =
                  [requested |-> TRUE, initialised |-> st.initialised,
                   stored |-> st.stored, built |-> st.built,
                   pathFound |-> response.pathFound,
                   status |-> response.status,
                   message |-> IF fetchThrows THEN "fetch failed"
                               ELSE getMerklePathError(response.status)]
             /\ IF response.status = 200
                THEN \E r \in RootStrings :
                       /\ uiMerklePath' = [found |-> TRUE, root |-> r]
                       /\ uiPc' = "verifyRoot"
                       /\ UNCHANGED <<uiOutcome, uiWithdrawing>>
                ELSE /\ uiMerklePath' = NoFlowPath
                     /\ EndAttempt(catchWithdrawError("Error"))
    /\ UNCHANGED <<uiNote, uiRecipient, uiContractRoot, uiProverInput, uiTx,
                   uiReceipt, spentNullifiers, indexedNullifiers>>

\* mutant: the comparison of the two roots always succeeds
rootsMatchAlways(pathRoot, contractRoot) == TRUE

\* !(BigInt(merklePath.root) !== contractRoot)
rootsMatch(pathRoot, contractRoot) == BigInt(pathRoot) = contractRoot

\* await readContract(getRoot) and the comparison with the path's root.
handleWithdrawVerifyRoot ==
    /\ uiPc = "verifyRoot"
    /\ uiSteps' = Append(uiSteps, "VerifyRoot")
    /\ \/ \E contractRoot \in ContractRoots :
            /\ uiContractRoot' = contractRoot
            /\ IF ~BigIntOk(uiMerklePath.root)
               THEN EndAttempt(catchWithdrawError("SyntaxError"))
               ELSE IF ~rootsMatch(uiMerklePath.root, contractRoot)
               THEN EndAttempt("RootMismatch")
               ELSE /\ uiPc' = "prove"
                    /\ UNCHANGED <<uiOutcome, uiWithdrawing>>
       \/ /\ UNCHANGED uiContractRoot
          /\ EndAttempt(catchWithdrawError("Error"))
    /\ UNCHANGED <<uiNote, uiRecipient, uiMerklePath, uiProverInput, uiTx,
                   uiReceipt, uiFetch, spentNullifiers,
                   indexedNullifiers>>

\* await generateWithdrawProof(input, wasm, zkey): the input object is built
\* from the note and the path, then groth16.fullProve computes the witness
\* and the proof, or throws.
handleWithdrawProve ==
    /\ uiPc = "prove"
    /\ uiSteps' = uiSteps \o <<"BuildWitness", "Prove">>
    /\ uiProverInput' = [called |-> TRUE,
                         root |-> uiMerklePath.root,
                         nullifierHash |-> uiNote.nullifierHash,
                         recipient |-> uiRecipient,
                         amount |-> uiNote.amount]
    /\ \/ /\ uiPc' = "submit"
          /\ UNCHANGED <<uiOutcome, uiWithdrawing>>
       \/ EndAttempt(catchWithdrawError("Error"))
    /\ UNCHANGED <<uiNote, uiRecipient, uiMerklePath, uiContractRoot, uiTx,
                   uiReceipt, uiFetch, spentNullifiers,
                   indexedNullifiers>>

\* await walletClient.writeContract(withdraw, [proof, root, nullifierHash,
\* recipient, amount]): the transaction hash, or the error of a rejected
\* or failed submission.
handleWithdrawSubmit ==
    /\ uiPc = "submit"
    /\ uiSteps' = Append(uiSteps, "Submit")
    /\ \/ /\ uiTx' = [sent |-> TRUE,
                      root |-> BigInt(uiMerklePath.root),
                      nullifierHash |-> uiNote.nullifierHash,
                      recipient |-> uiRecipient,
                      amount |-> uiNote.amount]
          /\ uiPc' = "confirm"
          /\ UNCHANGED <<uiOutcome, uiWithdrawing>>
       \/ /\ UNCHANGED uiTx
          /\ EndAttempt(catchWithdrawError("Error"))
    /\ UNCHANGED <<uiNote, uiRecipient, uiMerklePath, uiContractRoot,
                   uiProverInput, uiReceipt, uiFetch, spentNullifiers,
                   indexedNullifiers>>

\* The errors waitForTransactionReceipt throws: the timeout, or a failure
\* of the RPC.
ReceiptErrors == {"WaitForTransactionReceiptTimeoutError", "Error"}

\* mutant: the error of the receipt wait reaches the handler's outer catch
catchReceiptErrorOuter(errName) == catchWithdrawError(errName)

\* catch (receiptError): the transaction was submitted, whatever the error.
catchReceiptError(errName) == "submitted"

\* await waitForTransactionReceipt({hash, timeout: 60_000}) inside its own
\* try: a receipt gives "successful" whatever its status, any error gives
\* "submitted".  Meanwhile the pool executes the transaction: it reverts, or
\* (only for an unused nullifierHash) pays out and records the nullifierHash.
handleWithdrawConfirm ==
    /\ uiPc = "confirm"
    /\ uiSteps' = Append(uiSteps, "Confirm")
    /\ \E result \in {"receipt"} \cup ReceiptErrors :
         /\ uiReceipt' = result
         /\ EndAttempt(IF result = "receipt" THEN "success"
                       ELSE catchReceiptError(result))
    /\ \E executed \in BOOLEAN :
         /\ executed => uiTx.nullifierHash \notin spentNullifiers
         /\ spentNullifiers' =
              IF executed THEN spentNullifiers \cup {uiTx.nullifierHash}
              ELSE spentNullifiers
    /\ UNCHANGED <<uiNote, uiRecipient, uiMerklePath, uiContractRoot,
                   uiProverInput, uiTx, uiFetch, indexedNullifiers>>

\* The scanner stores the Withdrawal event of a recorded nullifierHash;
\* GET /api/nullifier/:nullifierHash answers from that table.
IndexWithdrawal ==
    /\ \E nh \in spentNullifiers \ indexedNullifiers :
         indexedNullifiers' = indexedNullifiers \cup {nh}
    /\ UNCHANGED <<uiPc, uiSteps, uiNote, uiRecipient, uiMerklePath,
                   uiContractRoot, uiProverInput, uiTx, uiOutcome,
                   uiWithdrawing, uiReceipt, uiFetch, spentNullifiers>>

\* IndexerClient.isNullifierUsed(nullifierHash)
indexerIsNullifierUsed(nullifierHash) == nullifierHash \in indexedNullifiers

(***************************************************************************)
(* The indexer's EventScanner and its database                             *)
(*                                                                         *)
(* chain[b + 1] is the list of the indexed events of block b; every event  *)
(* is emitted by a transaction of its own, identified by its block and its *)
(* position, and logIndex is the event's position in the block.            *)
(***************************************************************************)
ScanCommitments == {1, 2}

Events ==
    {[kind |-> "Announcement", commitment |-> 0],
     [kind |-> "Withdrawal", commitment |-> 0]}
    \cup {[kind |-> "Deposit", commitment |-> c] : c \in ScanCommitments}

\* The contents a mined block can have: no event, one event, or two events
\* of one kind.
BlockContents ==
    {<<>>} \cup {<<e>> : e \in Events}
    \cup {p \in Events \X Events : p[1].kind = p[2].kind}

\* The contents of block START_BLOCK, where the scanner's cursor starts.
StartBlockContents == {<<>>, <<[kind |-> "Deposit", commitment |-> 1]>>}

\* Number of events of `kind` that precede position idx of block b.
RECURSIVE CountBefore(_, _, _, _)
CountBefore(ch, kind, b, idx) ==
    IF b = 0 /\ idx = 0 THEN 0
    ELSE IF idx = 0 THEN CountBefore(ch, kind, b - 1, Len(ch[b]))
    ELSE CountBefore(ch, kind, b, idx - 1)
         + (IF ch[b + 1][idx].kind = kind THEN 1 ELSE 0)

\* The log of the event at position idx (from 1) of block b: Deposit carries
\* the leafIndex the pool assigned, Withdrawal its fresh nullifierHash.
LogOf(ch, b, idx) ==
    LET e == ch[b + 1][idx]
        seq == CountBefore(ch, e.kind, b, idx - 1)
    IN  [kind |-> e.kind,
         blockNumber |-> b,
         transactionHash |-> <<b, idx - 1>>,
         logIndex |-> idx - 1,
         commitment |-> e.commitment,
         leafIndex |-> IF e.kind = "Deposit" THEN seq ELSE 0,
         nullifierHash |-> IF e.kind = "Withdrawal" THEN seq + 1 ELSE 0]

RECURSIVE BlockLogs(_, _, _, _)
BlockLogs(ch, kind, b, idx) ==
    IF idx > Len(ch[b + 1]) THEN <<>>
    ELSE (IF ch[b + 1][idx].kind = kind THEN <<LogOf(ch, b, idx)>> ELSE <<>>)
         \o BlockLogs(ch, kind, b, idx + 1)

\* publicClient.getLogs({event, fromBlock, toBlock}): the logs of one event
\* in the blocks fromBlock..toBlock that exist, in chain order.
RECURSIVE getLogs(_, _, _, _)
getLogs(ch, kind, fromBlock, toBlock) ==
    IF fromBlock > toBlock \/ fromBlock > Len(ch) - 1 THEN <<>>
    ELSE BlockLogs(ch, kind, fromBlock, 1)
         \o getLogs(ch, kind, fromBlock + 1, toBlock)

\* publicClient.getBlockNumber()
getBlockNumber(ch) == Len(ch) - 1

NoScannerState == [exists |-> FALSE]

NoUpsert == [kind |-> "none", existed |-> FALSE, ok |-> FALSE]

ScannerInit ==
    /\ chain \in {<<c>> : c \in StartBlockContents}
    /\ announcements = <<>>
    /\ deposits = <<>>
    /\ withdrawals = <<>>
    /\ scannerState = NoScannerState
    /\ isScanning = FALSE
    /\ scanPc = "stopped"
    /\ scanFrom = 0
    /\ scanTo = 0
    /\ scanLogs = <<>>
    /\ scanRuns = 0
    /\ lastTick = "none"
    /\ scanQueried = {}
    /\ covered = {}
    /\ lastUpsert = NoUpsert

ScannerIdle ==
    /\ chain = <<<<>>>>
    /\ announcements = <<>>
    /\ deposits = <<>>
    /\ withdrawals = <<>>
    /\ scannerState = NoScannerState
    /\ isScanning = FALSE
    /\ scanPc = "stopped"
    /\ scanFrom = 0
    /\ scanTo = 0
    /\ scanLogs = <<>>
    /\ scanRuns = 0
    /\ lastTick = "none"
    /\ scanQueried = {}
    /\ covered = {}
    /\ lastUpsert = NoUpsert

\* The chain grows by one block.
MineBlock ==
    /\ getBlockNumber(chain) < MaxHead
    /\ \E c \in BlockContents : chain' = Append(chain, c)
    /\ UNCHANGED <<dbVars, scannerVars>>

\* EventScanner.start: the scanner state is created at START_BLOCK when the
\* database has none, then the ticks begin.
start ==
    /\ scanPc = "stopped"
    /\ scannerState' =
         IF scannerState.exists THEN scannerState
         ELSE [exists |-> TRUE, lastBlockScanned |-> START_BLOCK]
    /\ scanPc' = "idle"
    /\ UNCHANGED <<chain, announcements, deposits, withdrawals, isScanning,
                   scanFrom, scanTo, scanLogs, scanRuns, lastTick,
                   scanQueried, covered, lastUpsert>>

\* finally: isScanning = false.
scanFinally ==
    /\ isScanning' = FALSE
    /\ scanPc' = "idle"
    /\ scanLogs' = <<>>
    /\ scanRuns' = scanRuns - 1
    /\ scanQueried' = {}
    /\ UNCHANGED lastTick

\* mutant: a tick never returns at the isScanning test
tickNeverReturns(flag) == FALSE

\* if (this.isScanning) return;
tickReturns(flag) == flag

\* scanEvents up to the computation of the range: the isScanning guard, the
\* stored cursor, the chain head, fromBlock and toBlock.
\* A tick that finds isScanning set returns at once.  The return of a scan
\* that is already synced runs finally in the same step.
scanEvents ==
    /\ scanPc # "stopped"
    /\ IF tickReturns(isScanning)
       THEN /\ lastTick' = "skipped"
            /\ UNCHANGED <<isScanning, scanPc, scanFrom, scanTo, scanRuns,
                           scanQueried>>
       ELSE LET currentBlock == getBlockNumber(chain)
                fromBlock == scannerState.lastBlockScanned + 1
                toBlock == IF fromBlock + BLOCKS_PER_SCAN > currentBlock
                           THEN currentBlock
                           ELSE fromBlock + BLOCKS_PER_SCAN
            IN  /\ lastTick' = "passed"
                /\ scanQueried' = {}
                /\ scanFrom' = fromBlock
                /\ scanTo' = toBlock
                /\ IF fromBlock > currentBlock
                   THEN UNCHANGED <<isScanning, scanPc, scanRuns>>
                   ELSE /\ isScanning' = TRUE
                        /\ scanPc' = "getAnnouncements"
                        /\ scanRuns' = scanRuns + 1
    /\ UNCHANGED <<chain, dbVars, scanLogs, covered, lastUpsert>>

\* The stage that follows the loop over the logs of one event.
\* mutant: the scan goes from the announcements to the withdrawals
NextStageSkipsDeposits(kind) ==
    CASE kind = "Announcement" -> "getWithdrawals"
      [] kind = "Deposit" -> "getWithdrawals"
      [] OTHER -> "updateState"

NextStage(kind) ==
    CASE kind = "Announcement" -> "getDeposits"
      [] kind = "Deposit" -> "getWithdrawals"
      [] OTHER -> "updateState"

\* The getLogs call of one of scanAnnouncements, scanDeposits and
\* scanWithdrawals.
scanGetLogs(kind, stage, loop) ==
    /\ scanPc = stage
    /\ LET logs == getLogs(chain, kind, scanFrom, scanTo)
       IN  /\ scanLogs' = logs
           /\ scanPc' = IF logs = <<>> THEN NextStage(kind) ELSE loop
    /\ scanQueried' = scanQueried \cup {kind}
    /\ UNCHANGED <<chain, dbVars, isScanning, scanFrom, scanTo, scanRuns,
                   lastTick, covered, lastUpsert>>

\* One iteration of the loop over the logs: the upsert of the first log
\* still to be stored; a rejected write is thrown to scanEvents' catch.
scanUpsert(kind, loop, table) ==
    /\ scanPc = loop
    /\ LET row == createRow(Head(scanLogs))
           result == upsert(table, row, UniqueColumns(kind))
       IN  /\ lastUpsert' = [kind |-> kind, existed |-> hasKey(table, row),
                             ok |-> result.ok]
           /\ announcements' =
                IF kind = "Announcement" THEN result.table ELSE announcements
           /\ deposits' = IF kind = "Deposit" THEN result.table ELSE deposits
           /\ withdrawals' =
                IF kind = "Withdrawal" THEN result.table ELSE withdrawals
           /\ IF ~result.ok
              THEN /\ scanFinally
                   /\ UNCHANGED <<scanFrom, scanTo>>
              ELSE /\ scanLogs' = Tail(scanLogs)
                   /\ scanPc' = IF Tail(scanLogs) = <<>> THEN NextStage(kind)
                                ELSE loop
                   /\ UNCHANGED <<isScanning, scanFrom, scanTo, scanRuns,
                                  lastTick, scanQueried>>
    /\ UNCHANGED <<chain, scannerState, covered>>

scanAnnouncements ==
    \/ scanGetLogs("Announcement", "getAnnouncements", "upsertAnnouncements")
    \/ scanUpsert("Announcement", "upsertAnnouncements", announcements)

scanDeposits ==
    \/ scanGetLogs("Deposit", "getDeposits", "upsertDeposits")
    \/ scanUpsert("Deposit", "upsertDeposits", deposits)

scanWithdrawals ==
    \/ scanGetLogs("Withdrawal", "getWithdrawals", "upsertWithdrawals")
    \/ scanUpsert("Withdrawal", "upsertWithdrawals", withdrawals)

\* prisma.scannerState.update({lastBlockScanned: toBlock}), then finally.
scanUpdateState ==
    /\ scanPc = "updateState"
    /\ scannerState' = [exists |-> TRUE, lastBlockScanned |-> scanTo]
    /\ scanFinally
    /\ covered' = covered \cup ((scanFrom .. scanTo) \X scanQueried)
    /\ UNCHANGED <<chain, announcements, deposits, withdrawals, scanFrom,
                   scanTo, lastUpsert>>

\* An RPC call or a database call of the running scan rejects: catch logs
\* the error, finally clears the flag.
scanThrows ==
    /\ isScanning
    /\ scanFinally
    /\ UNCHANGED <<chain, dbVars, scanFrom, scanTo, covered, lastUpsert>>

(***************************************************************************)
(* StealthPay and ERC5564Announcer                                         *)
(***************************************************************************)
\* address(0), the sender, a fresh stealth address, and the StealthPay
\* contract itself (it has no receive function: a call with value fails).
ZeroAddr == "0x0"
Alice == "alice"
StealthAddr == "stealth"
StealthPayAddr == "stealthPay"

PayAccounts == {Alice, StealthAddr, StealthPayAddr}

\* The addresses and tokens a caller can pass.
PayRecipients == PayAccounts \cup {ZeroAddr}
PayTokens == {"token", ZeroAddr}
PayValues == 0 .. MaxFunds
SchemeIds == {1}

NoPayTx ==
    [op |-> "none", outcome |-> "none", stealthAddress |-> ZeroAddr,
     token |-> ZeroAddr, amount |-> 0, announcements |-> <<>>,
     payments |-> <<>>]

PayInit ==
    /\ payEth = [a \in PayAccounts |-> IF a = Alice THEN MaxFunds ELSE 0]
    /\ payTok = [a \in PayAccounts |-> IF a = Alice THEN MaxFunds ELSE 0]
    /\ payAllowance = 0
    /\ payLast = NoPayTx
    /\ paySent = 0

\* ERC5564Announcer.announce: the Announcement it emits; caller is msg.sender
\* of announce.
announce(msgSender, schemeId, stealthAddress) ==
    [schemeId |-> schemeId, stealthAddress |-> stealthAddress,
     caller |-> msgSender]

\* stealthAddress.call{value: msg.value}(""): fails for a contract that
\* cannot receive value.
callSucceeds(to) == to # StealthPayAddr

\* mutant: the stealth address is tested before the amount
sendEtherStealthOutcomeAddressFirst(value, stealthAddress) ==
    IF stealthAddress = ZeroAddr THEN "ZeroAddress"
    ELSE IF value = 0 THEN "ZeroAmount"
    ELSE IF ~callSucceeds(stealthAddress) THEN "TransferFailed"
    ELSE "ok"

sendEtherStealthOutcome(value, stealthAddress) ==
    IF value = 0 THEN "ZeroAmount"
    ELSE IF stealthAddress = ZeroAddr THEN "ZeroAddress"
    ELSE IF ~callSucceeds(stealthAddress) THEN "TransferFailed"
    ELSE "ok"

\* mutant: the value stays in StealthPay
ethAfterTransferKept(msgSender, stealthAddress, value) ==
    [payEth EXCEPT ![msgSender] = @ - value, ![StealthPayAddr] = @ + value]

\* The balances after msgSender paid `value` into StealthPay and StealthPay
\* passed it on to stealthAddress.
ethAfterTransfer(msgSender, stealthAddress, value) ==
    LET paidIn == [payEth EXCEPT ![msgSender] = @ - value,
                                 ![StealthPayAddr] = @ + value]
    IN  [paidIn EXCEPT ![StealthPayAddr] = @ - value,
                       ![stealthAddress] = @ + value]

\* sendEtherStealth(schemeId, stealthAddress, ...) payable, called by Alice
\* with msg.value = value.
sendEtherStealth(schemeId, stealthAddress, value) ==
    LET outcome == sendEtherStealthOutcome(value, stealthAddress)
    IN  /\ value <= payEth[Alice]
        /\ payLast' =
             [NoPayTx EXCEPT
                !.op = "sendEtherStealth", !.outcome = outcome,
                !.stealthAddress = stealthAddress, !.amount = value,
                !.announcements =
                   IF outcome = "ok"
                   THEN <<announce(StealthPayAddr, schemeId, stealthAddress)>>
                   ELSE <<>>,
                !.payments =
                   IF outcome = "ok"
                   THEN <<[stealthAddress |-> stealthAddress,
                           asset |-> ZeroAddr, amount |-> value,
                           caller |-> Alice]>>
                   ELSE <<>>]
        /\ IF outcome = "ok"
           THEN /\ payEth' = ethAfterTransfer(Alice, stealthAddress, value)
                /\ paySent' = IF stealthAddress = StealthAddr
                              THEN paySent + value ELSE paySent
           ELSE UNCHANGED <<payEth, paySent>>
        /\ UNCHANGED <<payTok, payAllowance>>

\* token.approve(stealthPay, amount) by Alice.
approve(amount) ==
    /\ payAllowance' = amount
    /\ payAllowance' # payAllowance
    /\ UNCHANGED <<payEth, payTok, payLast, paySent>>

\* The checks of sendTokenStealth, then those of the token's transferFrom.
sendTokenStealthOutcome(token, amount, stealthAddress) ==
    IF amount = 0 THEN "ZeroAmount"
    ELSE IF stealthAddress = ZeroAddr THEN "ZeroAddress"
    ELSE IF token = ZeroAddr THEN "ZeroAddress"
    ELSE IF payAllowance < amount THEN "ERC20InsufficientAllowance"
    ELSE IF payTok[Alice] < amount THEN "ERC20InsufficientBalance"
    ELSE "ok"

\* sendTokenStealth(schemeId, token, amount, stealthAddress, ...), called by
\* Alice.
sendTokenStealth(schemeId, token, amount, stealthAddress) ==
    LET outcome == sendTokenStealthOutcome(token, amount, stealthAddress)
    IN  /\ payLast' =
             [NoPayTx EXCEPT
                !.op = "sendTokenStealth", !.outcome = outcome,
                !.stealthAddress = stealthAddress, !.token = token,
                !.amount = amount,
                !.announcements =
                   IF outcome = "ok"
                   THEN <<announce(StealthPayAddr, schemeId, stealthAddress)>>
                   ELSE <<>>,
                !.payments =
                   IF outcome = "ok"
                   THEN <<[stealthAddress |-> stealthAddress,
                           asset |-> token, amount |-> amount,
                           caller |-> Alice]>>
                   ELSE <<>>]
        /\ IF outcome = "ok"
           THEN /\ payTok' =
                     [[payTok EXCEPT ![Alice] = @ - amount]
                        EXCEPT ![stealthAddress] = @ + amount]
                /\ payAllowance' = payAllowance - amount
           ELSE UNCHANGED <<payTok, payAllowance>>
        /\ UNCHANGED <<payEth, paySent>>

PaySendEther ==
    \E schemeId \in SchemeIds, stealthAddress \in PayRecipients,
       value \in PayValues :
        sendEtherStealth(schemeId, stealthAddress, value)

PayApprove == \E amount \in PayValues : approve(amount)

PaySendToken ==
    \E schemeId \in SchemeIds, token \in PayTokens, amount \in PayValues,
       stealthAddress \in PayRecipients :
        sendTokenStealth(schemeId, token, amount, stealthAddress)

(***************************************************************************)
(* Deposit notes (SDK)                                                     *)
(***************************************************************************)
\* circomlibjs poseidon(inputs): a hash without collisions, kept as a term.
poseidon(inputs) == <<"poseidon", inputs>>

\* bigint.toString(): the decimal text of a value, kept apart from the value.
toString(value) == <<"string", value>>

\* computeCommitment(secret, nullifier, amount)
computeCommitment(secret, nullifier, amount) ==
    poseidon(<<secret, nullifier, amount>>)

\* computeNullifierHash(nullifier)
computeNullifierHash(nullifier) == poseidon(<<nullifier>>)

\* The values the 32 random bytes can hold: below, at and above FIELD_SIZE.
RandomBytes == 0 .. (FIELD_SIZE + 1)

\* randomFieldElement, for the value of the random bytes.
randomFieldElement(bytes) == bytes % FIELD_SIZE

\* mutant: the nullifier hash also takes the amount
generateDepositNoteAmountBound(amount, secretBytes, nullifierBytes) ==
    LET secret == randomFieldElement(secretBytes)
        nullifier == randomFieldElement(nullifierBytes)
    IN  [secret |-> toString(secret),
         nullifier |-> toString(nullifier),
         commitment |-> toString(computeCommitment(secret, nullifier, amount)),
         nullifierHash |-> toString(poseidon(<<nullifier, amount>>)),
         amount |-> toString(amount)]

\* generateDepositNote(amount), for the two draws of random bytes.
generateDepositNote(amount, secretBytes, nullifierBytes) ==
    LET secret == randomFieldElement(secretBytes)
        nullifier == randomFieldElement(nullifierBytes)
    IN  [secret |-> toString(secret),
         nullifier |-> toString(nullifier),
         commitment |-> toString(computeCommitment(secret, nullifier, amount)),
         nullifierHash |-> toString(computeNullifierHash(nullifier)),
         amount |-> toString(amount)]

NotesInit == notes = <<>>

\* A user generates one more note.
GenerateNote ==
    /\ Len(notes) < MaxNotes
    /\ \E amount \in Denominations, secretBytes \in RandomBytes,
          nullifierBytes \in RandomBytes :
         notes' = Append(notes, generateDepositNote(amount, secretBytes,
                                                    nullifierBytes))

(***************************************************************************)
(* The public signals of a withdrawal                                      *)
(***************************************************************************)
\* The number an address stands for: uint256(uint160(recipient)) in the
\* contract, the value of the 0x-text as a circuit input.
addressValue(address) ==
    CASE address = WalletAddress -> 11
      [] address = "other" -> 12
      [] OTHER -> 0

\* component main {public [root, nullifierHash, recipient, amount]}: the
\* public signals of a proof computed from `input`, in the declared order.
circuitPublicSignals(input) ==
    <<BigInt(input.root), input.nullifierHash, addressValue(input.recipient),
      input.amount>>

\* The arguments of withdraw after the proof, as writeContract passes them.
withdrawArgs(tx) == <<tx.root, tx.nullifierHash, tx.recipient, tx.amount>>

\* mutant: root and nullifierHash change places
pubSignalsSwapped(root, nullifierHash, recipient, amount) ==
    <<nullifierHash, root, addressValue(recipient), amount>>

\* withdraw: uint256[4] pubSignals = [root, nullifierHash,
\* uint256(uint160(recipient)), amount], handed to verifier.verifyProof.
pubSignals(root, nullifierHash, recipient, amount) ==
    <<root, nullifierHash, addressValue(recipient), amount>>

(***************************************************************************)
(* Deposits and withdrawals of notes: the Withdraw circuit and the pool    *)
(***************************************************************************)
BindSecrets == {1}
BindNullifiers == {1, 2}

\* commitmentHasher = Poseidon(3) over (secret, nullifier, amount), kept as
\* a collision-free code of its three inputs.
commitmentHasher(secret, nullifier, amount) ==
    secret * 100 + nullifier * 10 + amount

\* nullifierHasher = Poseidon(1), kept as a collision-free map of the
\* nullifiers onto the nullifier hashes.
nullifierHasher(nullifier) == 3 - nullifier

\* The constraints of Withdraw(levels): the commitment of (secret, nullifier,
\* amount) is a leaf under root, and nullifierHash is the hash of nullifier.
\* recipient is only squared.
WithdrawCircuit(secret, nullifier, pathElements, pathIndices, root, nullifierHash, recipient, amount) ==
    /\ MerkleTreeChecker(Fe(commitmentHasher(secret, nullifier, amount)),
                         pathElements, pathIndices, root)
    /\ nullifierHash = nullifierHasher(nullifier)

BindInit == depositValues = <<>> /\ payouts = <<>>

\* deposit(commitment, amount) with msg.value = value, the commitment being
\* the hash of a note the depositor made for the amount noteAmount.
BindDeposit ==
    \E secret \in BindSecrets, nullifier \in BindNullifiers,
       noteAmount \in Denominations, amount \in Denominations,
       value \in Denominations :
        /\ Len(chainLeaves) < MaxNoteDeposits
        /\ Deposit(commitmentHasher(secret, nullifier, noteAmount), amount,
                   value)
        /\ depositValues' = IF DepositOutcome(amount, value) = "ok"
                     THEN Append(depositValues, value)
                     ELSE depositValues
        /\ UNCHANGED payouts

\* withdraw with a proof made from the note (secret, nullifier, amount) and
\* the path of leaf i, for the root stored when leaf i was inserted or the
\* current root, to a recipient that accepts the transfer; the verifier
\* accepts exactly the proofs whose witness satisfies the circuit.
BindWithdraw ==
    \E i \in 0 .. (Len(chainLeaves) - 1), secret \in BindSecrets,
       nullifier \in BindNullifiers, recipient \in Recipients \ {0},
       amount \in Denominations :
        \E root \in {roots[i + 1], getRoot} :
            LET merklePath == getMerklePath(chainLeaves, i)
                nullifierHash == nullifierHasher(nullifier)
                proofOk == WithdrawCircuit(secret, nullifier,
                                           merklePath.pathElements,
                                           merklePath.pathIndices, root,
                                           nullifierHash, recipient, amount)
            IN  /\ Withdraw(root, nullifierHash, recipient, amount, proofOk,
                            TRUE)
                /\ payouts' =
                     IF WithdrawOutcome(root, nullifierHash, recipient,
                                        amount, proofOk, TRUE) = "ok"
                     THEN Append(payouts,
                                 [leafIndex |-> i, amount |-> amount])
                     ELSE payouts
                /\ UNCHANGED depositValues

(***************************************************************************)
(* A withdrawal built on a root the orchestrator verified earlier          *)
(***************************************************************************)
NotVerified == [done |-> FALSE, root |-> Zero, index |-> 0]
NoStaleTx == [done |-> FALSE, outcome |-> "none", between |-> 0]

StaleInit == verified = NotVerified /\ staleTx = NoStaleTx

\* handleWithdraw: readContract getRoot; the root is the contract's current
\* root at that moment.
StaleVerifyRoot ==
    /\ verified' = [done |-> TRUE, root |-> getRoot,
                    index |-> currentRootIndex]
    /\ UNCHANGED <<poolVars, staleTx>>

\* Deposits of other users while the proof is made.
StaleDeposit ==
    /\ Len(chainLeaves) < MaxDeposits
    /\ \E c \in Commitments : Deposit(c, CapacityAmount, CapacityAmount)
    /\ UNCHANGED staleVars

\* handleWithdraw: writeContract withdraw with the verified root, executed
\* after the deposits mined since; the recipient accepts the transfer.
StaleWithdraw ==
    /\ verified.done
    /\ \E n \in NullifierHashes, rc \in Recipients \ {0},
          a \in Denominations, proofOk \in BOOLEAN :
          /\ Withdraw(verified.root, n, rc, a, proofOk, TRUE)
          /\ staleTx' = [done |-> TRUE,
                         outcome |-> WithdrawOutcome(verified.root, n, rc, a,
                                                     proofOk, TRUE),
                         between |-> currentRootIndex - verified.index]
    /\ UNCHANGED verified

\* The groups a late specification leaves alone besides the late ones.
earlyOtherVars ==
    <<replicaVars, stealthVars, uiVars, chain, dbVars, scannerVars, wsVars,
      payVars, noteVars, bindVars>>

otherThanStaleVars == <<earlyOtherVars, alignVars, rebuildVars, announceVars, reenterVars>>

StaleNext ==
    \/ StaleVerifyRoot /\ UNCHANGED otherThanStaleVars
    \/ StaleDeposit /\ UNCHANGED otherThanStaleVars
    \/ StaleWithdraw /\ UNCHANGED otherThanStaleVars

(***************************************************************************)
(* The replica of an indexer that starts scanning at a later block         *)
(***************************************************************************)
NotStarted == [started |-> FALSE, skipped |-> 0]

AlignInit == scanStart = NotStarted

\* EventScanner.start with START_BLOCK set to the current block: the Deposit
\* events mined so far lie at or before START_BLOCK and are never queried.
AlignStart ==
    /\ ~scanStart.started
    /\ scanStart' = [started |-> TRUE, skipped |-> Len(chainLeaves)]
    /\ UNCHANGED <<poolVars, replicaVars, deposits>>

\* A deposit the contract accepts, before or after the scanner started.
AlignDeposit ==
    /\ ReplicaDeposit
    /\ UNCHANGED scanStart

\* scanDeposits stores the next Deposit event mined after START_BLOCK, with
\* the leafIndex the event carries.
AlignStoreDeposit ==
    /\ scanStart.started
    /\ scanStart.skipped + Len(deposits) < Len(chainLeaves)
    /\ LET k == scanStart.skipped + Len(deposits)
           result == upsert(deposits,
                            createRow(DepositLog(k, chainLeaves[k + 1][1])),
                            UniqueColumns("Deposit"))
       IN  /\ result.ok
           /\ deposits' = result.table
    /\ UNCHANGED <<poolVars, replicaVars, scanStart>>

AlignBuild ==
    /\ buildFromDatabase
    /\ UNCHANGED scanStart

AlignQuery ==
    /\ QueryMerklePath
    /\ UNCHANGED scanStart

otherThanAlignVars == <<stealthVars, uiVars, chain, announcements, withdrawals, scannerState, scannerVars, wsVars, payVars, noteVars, bindVars, staleVars, rebuildVars, announceVars, reenterVars>>

AlignNext ==
    \/ AlignStart /\ UNCHANGED otherThanAlignVars
    \/ AlignDeposit /\ UNCHANGED otherThanAlignVars
    \/ AlignStoreDeposit /\ UNCHANGED otherThanAlignVars
    \/ AlignBuild /\ UNCHANGED otherThanAlignVars
    \/ AlignQuery /\ UNCHANGED otherThanAlignVars

(***************************************************************************)
(* Overlapping rebuilds of the in-memory tree                              *)
(***************************************************************************)
\* The callers of buildFromDatabase: the timer of main and the handler of
\* POST /api/rebuild-tree.
Rebuilders == {"timer", "post"}

NoRebuild == [pc |-> "idle", rows |-> <<>>]

RebuildInit == rebuilds = [who \in Rebuilders |-> NoRebuild]

\* buildFromDatabase up to its await: prisma.deposit.findMany is answered
\* with the rows stored at that moment.
RebuildQuery(who) ==
    /\ rebuilds[who].pc = "idle"
    /\ rebuilds' = [rebuilds EXCEPT ![who] = [pc |-> "fetched",
                                               rows |-> deposits]]
    /\ UNCHANGED <<poolVars, replicaVars, deposits>>

\* buildFromDatabase after its await, in one turn of the event loop:
\* this.leaves = [] and the push of every row's commitment.
RebuildInstall(who) ==
    /\ rebuilds[who].pc = "fetched"
    /\ leaves' = leavesOfTable(rebuilds[who].rows)
    /\ rebuilds' = [rebuilds EXCEPT ![who] = NoRebuild]
    /\ UNCHANGED <<poolVars, path, deposits>>

\* The timer's handler after buildFromDatabase: the status is broadcast.
timerRebuilt ==
    /\ RebuildInstall("timer")
    /\ broadcastStatus

\* The POST handler after buildFromDatabase: the response is sent.
postRebuilt ==
    /\ RebuildInstall("post")
    /\ UNCHANGED wsVars

RebuildDeposit ==
    /\ Len(chainLeaves) < MaxDeposits
    /\ ReplicaDeposit
    /\ UNCHANGED rebuilds

RebuildStoreDeposit ==
    /\ StoreDeposit
    /\ UNCHANGED rebuilds

RebuildQueryPath ==
    /\ QueryMerklePath
    /\ UNCHANGED rebuilds

otherThanRebuildVars == <<stealthVars, uiVars, chain, announcements, withdrawals, scannerState, scannerVars, payVars, noteVars, bindVars, staleVars, alignVars, announceVars, reenterVars>>

RebuildNext ==
    \/ RebuildDeposit /\ UNCHANGED <<otherThanRebuildVars, wsVars>>
    \/ RebuildStoreDeposit /\ UNCHANGED <<otherThanRebuildVars, wsVars>>
    \/ RebuildQuery("timer") /\ UNCHANGED <<otherThanRebuildVars, wsVars>>
    \/ RebuildQuery("post") /\ UNCHANGED <<otherThanRebuildVars, wsVars>>
    \/ timerRebuilt /\ UNCHANGED otherThanRebuildVars
    \/ postRebuilt /\ UNCHANGED otherThanRebuildVars
    \/ RebuildQueryPath /\ UNCHANGED <<otherThanRebuildVars, wsVars>>

(***************************************************************************)
(* Scanning the indexed announcements: GET /api/announcements,             *)
(* IndexerClient.getAnnouncements, IndexerClient.scanAnnouncementsIndexed *)
(* and ReceivePage.scanForPayments                                         *)
(***************************************************************************)
\* Rows the Announcement table holds at most.
MaxStored == 3

\* `limit = '100'` of GET /api/announcements: the rows one answer holds
\* when the query names no limit.
DEFAULT_LIMIT == 2

\* `limit: 1000` of the receive page.
PAGE_LIMIT == 3

\* A parameter the caller left out (undefined).
Undefined == -1

NoPayments == [done |-> FALSE]

\* No recipient scans.
AnnounceIdle ==
    /\ indexed = <<>>
    /\ payments = NoPayments
    /\ verdicts = {}

\* ProjectivePoint.fromHex throws unless the bytes are a point of the curve
\* in its compressed or uncompressed form.
isPoint(bytes) ==
    /\ Len(bytes) \in {2, 3}
    /\ IF Len(bytes) = 3
       THEN bytes[1] = 4 /\ OnCurve(bytes[2], bytes[3])
       ELSE /\ bytes[1] \in {2, 3}
            /\ \E y \in 0 .. (Curve.p - 1) :
                 OnCurve(bytes[2], y) /\ (y % 2 = 0) = (bytes[1] = 2)

\* Bytes that are no public key, and an address isAddress rejects.
BadKey == <<2, 0>>

BadAddress == [hex |-> 0, form |-> "invalid"]

\* What an Announcement event can carry: the announcer takes any scheme
\* id, any address and any bytes.  A sender that follows the protocol
\* announces what generateStealthAddress gave for a recipient's
\* meta-address.
AnnouncedFor(meta, entropies) ==
    {[schemeId |-> 1, stealthAddress |-> info.stealthAddress,
      ephemeralPubKey |-> info.ephemeralPublicKey] :
        info \in {generateStealthAddress(meta, 1, e) : e \in entropies}
                    \ {Failed}}

\* The meta-address of another recipient.
otherMetaAddress ==
    generateStealthMetaAddress(generateKeypair(1).publicKey,
                               generateKeypair(2).publicKey)

\* The private keys (viewing, spending) of the recipients who scan.
ScanKeyPairs == {<<2, 3>>}

ScanKeys ==
    <<viewingKeypair.privateKey, spendingKeypair.privateKey>> \in ScanKeyPairs

metaAddressOf(keys) ==
    generateStealthMetaAddress(generateKeypair(keys[1]).publicKey,
                               generateKeypair(keys[2]).publicKey)

Announced ==
    UNION {AnnouncedFor(metaAddressOf(k), {2})
             \cup {[a EXCEPT !.schemeId = 2] :
                      a \in AnnouncedFor(metaAddressOf(k), {2})} :
           k \in ScanKeyPairs}
      \cup AnnouncedFor(otherMetaAddress, {5})
      \cup {[schemeId |-> 1, stealthAddress |-> getAddress(1),
             ephemeralPubKey |-> BadKey],
            [schemeId |-> 1, stealthAddress |-> BadAddress,
             ephemeralPubKey |-> generateKeypair(1).compressedPublicKey]}

\* scanAnnouncements: the scanner stores the events block after block, one
\* row per event; here every block holds one announcement.
AnnounceStore ==
    /\ Len(indexed) < MaxStored
    /\ \E a \in {t.announcement : t \in verdicts},
          b \in {Len(indexed)} :
         indexed' = Append(indexed,
                          [id |-> Len(indexed) + 1,
                           blockNumber |-> b,
                           schemeId |-> a.schemeId,
                           stealthAddress |-> a.stealthAddress,
                           ephemeralPubKey |-> a.ephemeralPubKey])
    /\ UNCHANGED <<payments, verdicts>>

\* getAnnouncements: a parameter goes into the query string only when it
\* is truthy, so 0 is left out as undefined is.
queryParams(params) ==
    [fromBlock |-> IF params.fromBlock \in {Undefined, 0}
                   THEN Undefined ELSE params.fromBlock,
     toBlock |-> IF params.toBlock \in {Undefined, 0}
                 THEN Undefined ELSE params.toBlock,
     limit |-> IF params.limit \in {Undefined, 0}
               THEN Undefined ELSE params.limit]

\* orderBy: { blockNumber: 'desc' }
RECURSIVE orderByBlockNumberDesc(_)
orderByBlockNumberDesc(rows) ==
    IF rows = <<>> THEN <<>>
    ELSE LET top == CHOOSE i \in 1 .. Len(rows) :
                        \A j \in 1 .. Len(rows) :
                            \/ rows[j].blockNumber < rows[i].blockNumber
                            \/ (rows[j].blockNumber = rows[i].blockNumber
                                /\ j <= i)
             rest == [k \in 1 .. (Len(rows) - 1) |->
                         IF k < top THEN rows[k] ELSE rows[k + 1]]
         IN  <<rows[top]>> \o orderByBlockNumberDesc(rest)

\* GET /api/announcements: where, orderBy, take (skip is 0).
apiAnnouncements(query) ==
    LET where(a) ==
            /\ query.fromBlock = Undefined \/ a.blockNumber >= query.fromBlock
            /\ query.toBlock = Undefined \/ a.blockNumber <= query.toBlock
        found == orderByBlockNumberDesc(SelectSeq(indexed, where))
        take == IF query.limit = Undefined THEN DEFAULT_LIMIT ELSE query.limit
    IN  SubSeq(found, 1, IF take < Len(found) THEN take ELSE Len(found))

getAnnouncements(params) == apiAnnouncements(queryParams(params))

\* The try block of the loop: computeStealthPrivateKey, then
\* checkStealthAddress; "error" is a thrown exception.
isForUs(viewPrivateKey, spendPrivateKey, announcement) ==
    IF ~isPoint(announcement.ephemeralPubKey) THEN [check |-> "error"]
    ELSE LET key == computeStealthPrivateKey(viewPrivateKey, spendPrivateKey,
                                             announcement.ephemeralPubKey)
         IN  IF ~key.ok THEN [check |-> "error"]
             ELSE [check |-> checkStealthAddress(key.privateKey,
                                                 announcement.stealthAddress),
                   stealthPrivateKey |-> key.privateKey]

\* mutant: the exception of one announcement leaves the loop
loopBodyUncaught(viewPrivateKey, spendPrivateKey, announcement) ==
    IF announcement.schemeId # 1 THEN "skip"
    ELSE LET r == isForUs(viewPrivateKey, spendPrivateKey, announcement)
         IN  CASE r.check = "error" -> "throw"
               [] r.check = "match" -> "push"
               [] OTHER -> "skip"

\* One turn of the loop over the announcements: another scheme is passed
\* over, an exception is caught and the loop goes on, a match is pushed.
loopBody(viewPrivateKey, spendPrivateKey, announcement) ==
    IF announcement.schemeId # 1 THEN "skip"
    ELSE LET r == isForUs(viewPrivateKey, spendPrivateKey, announcement)
         IN  CASE r.check = "error" -> "skip"
               [] r.check = "match" -> "push"
               [] OTHER -> "skip"

\* What the loop does with each announcement under each pair of keys:
\* the outcome of its turn and the value of its try block.
turns ==
    {[keys |-> k, announcement |-> a,
      turn |-> loopBody(k[1], k[2], a),
      try |-> isForUs(k[1], k[2], a)] : k \in ScanKeyPairs, a \in Announced}

\* A recipient holds keys and the loop's outcomes are at hand.
AnnounceInit ==
    /\ indexed = <<>>
    /\ payments = NoPayments
    /\ verdicts = turns

turnOf(viewPrivateKey, spendPrivateKey, row) ==
    CHOOSE t \in verdicts :
        /\ t.keys = <<viewPrivateKey, spendPrivateKey>>
        /\ t.announcement = [schemeId |-> row.schemeId,
                             stealthAddress |-> row.stealthAddress,
                             ephemeralPubKey |-> row.ephemeralPubKey]

\* The payment pushed for an announcement.
paymentOf(viewPrivateKey, spendPrivateKey, announcement) ==
    [id |-> announcement.id,
     stealthAddress |-> announcement.stealthAddress,
     stealthPrivateKey |->
         turnOf(viewPrivateKey, spendPrivateKey,
                announcement).try.stealthPrivateKey,
     ephemeralPublicKey |-> announcement.ephemeralPubKey,
     blockNumber |-> announcement.blockNumber]

\* The loop over the answer: its payments, or `thrown` when an exception
\* left it.  `funded` are the announcements the caller keeps among the
\* matches.
scanLoop(answer, viewPrivateKey, spendPrivateKey, funded) ==
    LET turn(a) == turnOf(viewPrivateKey, spendPrivateKey, a).turn
        thrown == \E i \in 1 .. Len(answer) :
                      turn(answer[i]) = "throw"
        pushed == SelectSeq(answer,
                            LAMBDA a : turn(a) = "push" /\ a.id \in funded)
    IN  [thrown |-> thrown,
         found |-> IF thrown THEN {}
                   ELSE {paymentOf(viewPrivateKey, spendPrivateKey, pushed[i]) :
                            i \in 1 .. Len(pushed)}]

\* scanAnnouncementsIndexed({viewPrivateKey, spendPrivateKey, fromBlock,
\* toBlock}) of a caller who holds the two keypairs.
scanAnnouncementsIndexed ==
    /\ indexed # <<>>
    /\ \E range \in {<<Undefined, Undefined>>, <<0, Undefined>>,
                      <<1, Undefined>>, <<Undefined, 1>>} :
         LET fromBlock == range[1]
             toBlock == range[2]
             response == getAnnouncements([fromBlock |-> fromBlock,
                                           toBlock |-> toBlock,
                                           limit |-> Undefined])
             result == scanLoop(response, viewingKeypair.privateKey,
                                spendingKeypair.privateKey,
                                1 .. Len(indexed))
         IN  payments' = [done |-> TRUE, by |-> "sdk",
                          fromBlock |-> fromBlock, toBlock |-> toBlock,
                          held |-> Len(indexed),
                          response |-> {response[i].id :
                                           i \in 1 .. Len(response)},
                          funded |-> 1 .. Len(indexed),
                          thrown |-> result.thrown,
                          found |-> result.found]
    /\ UNCHANGED <<indexed, verdicts>>

\* ReceivePage.scanForPayments: the same loop over getAnnouncements({limit:
\* 1000}); a match is kept when getBalance of its address is above zero.
scanForPayments ==
    /\ indexed # <<>>
    /\ \E unfunded \in {{}, {Len(indexed)}} :
         LET response == getAnnouncements([fromBlock |-> Undefined,
                                           toBlock |-> Undefined,
                                           limit |-> PAGE_LIMIT])
             funded == (1 .. Len(indexed)) \ unfunded
             result == scanLoop(response, viewingKeypair.privateKey,
                                spendingKeypair.privateKey, funded)
         IN  payments' = [done |-> TRUE, by |-> "page",
                          fromBlock |-> Undefined, toBlock |-> Undefined,
                          held |-> Len(indexed),
                          response |-> {response[i].id :
                                           i \in 1 .. Len(response)},
                          funded |-> funded,
                          thrown |-> result.thrown,
                          found |-> result.found]
    /\ UNCHANGED <<indexed, verdicts>>

otherThanAnnounceVars == <<poolVars, replicaVars, stealthVars, uiVars, chain, dbVars, scannerVars, wsVars, payVars, noteVars, bindVars, staleVars, alignVars, rebuildVars, reenterVars>>

AnnounceNext ==
    \/ AnnounceStore /\ UNCHANGED otherThanAnnounceVars
    \/ scanAnnouncementsIndexed /\ UNCHANGED otherThanAnnounceVars
    \/ scanForPayments /\ UNCHANGED otherThanAnnounceVars

(***************************************************************************)
(* withdraw and the recipient's callback                                   *)
(*                                                                         *)
(* withdraw is split at recipient.call: the first step runs the checks,    *)
(* records the nullifierHash and hands the value and the control to the    *)
(* recipient; the recipient's code may call back into the pool; the last   *)
(* step is the return of the call.                                         *)
(***************************************************************************)
NoPayout == [active |-> FALSE]

NoNested == [done |-> FALSE]

ReenterInit ==
    /\ guardStatus = "NOT_ENTERED"
    /\ payout = NoPayout
    /\ nested = NoNested

\* mutant: the modifier lets a nested call in
reentrantCallNever(status) == FALSE

\* modifier nonReentrant: a call that finds _status ENTERED reverts.
reentrantCall(status) == status = "ENTERED"

\* A deposit between two transactions.
ReenterDeposit ==
    /\ ~payout.active
    /\ ~reentrantCall(guardStatus)
    /\ Len(chainLeaves) < MaxDeposits
    /\ \E c \in Commitments : Deposit(c, CapacityAmount, CapacityAmount)
    /\ UNCHANGED reenterVars

\* withdraw up to recipient.call{value: amount}(""): the guard is entered,
\* the checks run, the nullifierHash is recorded, and the value leaves the
\* pool as the recipient's code starts.  A failed check reverts.
ReenterWithdrawCall ==
    /\ ~payout.active
    /\ ~reentrantCall(guardStatus)
    /\ \E n \in NullifierHashes, rc \in Recipients \ {0}, a \in Denominations,
          proofOk \in BOOLEAN :
         LET outcome == WithdrawOutcome(getRoot, n, rc, a, proofOk, TRUE)
         IN  IF outcome = "ok"
             THEN /\ successCount[n] < MaxSuccess
                  /\ guardStatus' = "ENTERED"
                  /\ nullifiers' = nullifiers \cup {n}
                  /\ poolBalance' = poolBalance - a
                  /\ payout' = [active |-> TRUE, nullifierHash |-> n,
                                recipient |-> rc, amount |-> a]
                  /\ UNCHANGED <<lastTx, successCount>>
             ELSE /\ lastTx' = [NoTx EXCEPT !.op = "withdraw",
                                           !.outcome = outcome,
                                           !.nullifierHash = n,
                                           !.usedBefore = isNullifierUsed(n),
                                           !.knownBefore = TRUE,
                                           !.amount = a]
                  /\ UNCHANGED <<guardStatus, nullifiers, poolBalance, payout,
                                 successCount>>
    /\ UNCHANGED <<nextLeafIndex, filledSubtrees, roots, currentRootIndex,
                   chainLeaves, nested>>

\* What the pool answers to a nested call it turned away.
Reverted(op, nullifierHash) ==
    [done |-> TRUE, op |-> op, nullifierHash |-> nullifierHash,
     outcome |-> "ReentrancyGuardReentrantCall",
     paid |-> 0, inserted |-> 0,
     used |-> isNullifierUsed(payout.nullifierHash)]

\* The recipient's code calls deposit.
ReenterNestedDeposit ==
    /\ payout.active
    /\ \E c \in Commitments :
         IF reentrantCall(guardStatus)
         THEN /\ nested' = Reverted("deposit", 0)
              /\ UNCHANGED poolVars
         ELSE /\ Len(chainLeaves) < MaxDeposits
              /\ Deposit(c, CapacityAmount, CapacityAmount)
              /\ nested' = [done |-> TRUE, op |-> "deposit",
                            nullifierHash |-> 0,
                            outcome |-> DepositOutcome(CapacityAmount,
                                                       CapacityAmount),
                            paid |-> 0,
                            inserted |-> Len(chainLeaves') - Len(chainLeaves),
                            used |-> isNullifierUsed(payout.nullifierHash)]
    /\ UNCHANGED <<guardStatus, payout>>

\* The recipient's code calls withdraw, for the nullifierHash of the payout
\* or for another one.
ReenterNestedWithdraw ==
    /\ payout.active
    /\ \E n \in NullifierHashes, a \in Denominations :
         IF reentrantCall(guardStatus)
         THEN /\ nested' = Reverted("withdraw", n)
              /\ UNCHANGED poolVars
         ELSE /\ Withdraw(getRoot, n, payout.recipient, a, TRUE, TRUE)
              /\ nested' = [done |-> TRUE, op |-> "withdraw",
                            nullifierHash |-> n,
                            outcome |-> WithdrawOutcome(getRoot, n,
                                                        payout.recipient, a,
                                                        TRUE, TRUE),
                            paid |-> poolBalance - poolBalance',
                            inserted |-> 0,
                            used |-> isNullifierUsed(payout.nullifierHash)]
    /\ UNCHANGED <<guardStatus, payout>>

\* recipient.call returns: on success withdraw emits Withdrawal and leaves
\* the guard; on failure it reverts with TransferFailed and every effect of
\* the transaction is undone.
ReenterReturn ==
    /\ payout.active
    /\ \E success \in BOOLEAN :
         /\ lastTx' = [NoTx EXCEPT !.op = "withdraw",
                                   !.outcome = IF success THEN "ok"
                                               ELSE "TransferFailed",
                                   !.nullifierHash = payout.nullifierHash,
                                   !.paid = IF success THEN payout.amount
                                            ELSE 0,
                                   !.knownBefore = TRUE,
                                   !.amount = payout.amount]
         /\ IF success
            THEN /\ successCount' =
                      [successCount EXCEPT ![payout.nullifierHash] = @ + 1]
                 /\ UNCHANGED <<nullifiers, poolBalance>>
            ELSE /\ nullifiers' = nullifiers \ {payout.nullifierHash}
                 /\ poolBalance' = poolBalance + payout.amount
                 /\ UNCHANGED successCount
    /\ guardStatus' = "NOT_ENTERED"
    /\ payout' = NoPayout
    /\ UNCHANGED <<nextLeafIndex, filledSubtrees, roots, currentRootIndex,
                   chainLeaves, nested>>

otherThanReenterVars == <<replicaVars, stealthVars, uiVars, chain, dbVars, scannerVars, wsVars, payVars, noteVars, bindVars, staleVars, alignVars, rebuildVars, announceVars>>

ReenterNext ==
    \/ ReenterDeposit /\ UNCHANGED otherThanReenterVars
    \/ ReenterWithdrawCall /\ UNCHANGED otherThanReenterVars
    \/ ReenterNestedDeposit /\ UNCHANGED otherThanReenterVars
    \/ ReenterNestedWithdraw /\ UNCHANGED otherThanReenterVars
    \/ ReenterReturn /\ UNCHANGED otherThanReenterVars

(***************************************************************************)
(* Specifications                                                          *)
(***************************************************************************)
\* The late variable groups before any of their actions.
LateInit == StaleInit /\ AlignInit /\ RebuildInit /\ AnnounceIdle /\ ReenterInit

vars == <<poolVars, replicaVars, stealthVars, uiVars, chain, dbVars,
          scannerVars, wsVars, restVars>>

indexerVars == <<chain, dbVars, scannerVars, wsVars, restVars>>

PoolNext ==
    \/ PoolDeposit /\ UNCHANGED <<replicaVars, stealthVars, uiVars, indexerVars>>
    \/ PoolWithdraw /\ UNCHANGED <<replicaVars, stealthVars, uiVars, indexerVars>>

CapacityNext ==
    CapacityDeposit /\ UNCHANGED <<replicaVars, stealthVars, uiVars, indexerVars>>

\* The variables of the indexer that the replica leaves alone.
scanOnlyVars ==
    <<chain, announcements, withdrawals, scannerState, scannerVars, restVars>>

ReplicaNext ==
    \/ ReplicaDeposit /\ UNCHANGED <<stealthVars, uiVars, scanOnlyVars, wsVars>>
    \/ StoreDeposit /\ UNCHANGED <<stealthVars, uiVars, scanOnlyVars, wsVars>>
    \/ buildFromDatabase /\ UNCHANGED <<stealthVars, uiVars, scanOnlyVars, wsVars>>
    \/ QueryMerklePath /\ UNCHANGED <<stealthVars, uiVars, scanOnlyVars, wsVars>>

\* The indexer with connected clients: deposits are mined and stored, the
\* tree is rebuilt on its timer, sockets come and go.
NotifyNext ==
    \/ ReplicaDeposit /\ UNCHANGED <<stealthVars, uiVars, scanOnlyVars, wsVars>>
    \/ StoreDeposit /\ UNCHANGED <<stealthVars, uiVars, scanOnlyVars, wsVars>>
    \/ rebuildTimer /\ UNCHANGED <<stealthVars, uiVars, scanOnlyVars>>
    \/ wsConnection
          /\ UNCHANGED <<poolVars, replicaVars, stealthVars, uiVars, chain,
                         dbVars, scannerVars, restVars>>
    \/ wsClose
          /\ UNCHANGED <<poolVars, replicaVars, stealthVars, uiVars, chain,
                         dbVars, scannerVars, restVars>>

otherThanPayVars ==
    <<poolVars, replicaVars, stealthVars, uiVars, chain, dbVars, scannerVars,
      wsVars, noteVars, bindVars, lateVars>>

StealthPayNext ==
    \/ PaySendEther /\ UNCHANGED otherThanPayVars
    \/ PayApprove /\ UNCHANGED otherThanPayVars
    \/ PaySendToken /\ UNCHANGED otherThanPayVars

BindNext ==
    \/ BindDeposit
          /\ UNCHANGED <<replicaVars, stealthVars, uiVars, chain, dbVars,
                         scannerVars, wsVars, payVars, noteVars, lateVars>>
    \/ BindWithdraw
          /\ UNCHANGED <<replicaVars, stealthVars, uiVars, chain, dbVars,
                         scannerVars, wsVars, payVars, noteVars, lateVars>>

NotesNext ==
    GenerateNote
      /\ UNCHANGED <<poolVars, replicaVars, stealthVars, uiVars, chain, dbVars,
                     scannerVars, wsVars, payVars, bindVars, lateVars>>

StealthNext ==
    \/ StealthSend /\ UNCHANGED <<poolVars, replicaVars, uiVars, indexerVars>>
    \/ StealthEcdhRecipient
          /\ UNCHANGED <<poolVars, replicaVars, uiVars, indexerVars>>
    \/ StealthScan /\ UNCHANGED <<poolVars, replicaVars, uiVars, indexerVars>>
    \/ GenerateKeypairCall
          /\ UNCHANGED <<poolVars, replicaVars, uiVars, indexerVars>>

WithdrawFlowNext ==
    \/ handleWithdraw
          /\ UNCHANGED <<poolVars, replicaVars, stealthVars, indexerVars>>
    \/ handleWithdrawFetchPath
          /\ UNCHANGED <<poolVars, replicaVars, stealthVars, indexerVars>>
    \/ handleWithdrawVerifyRoot
          /\ UNCHANGED <<poolVars, replicaVars, stealthVars, indexerVars>>
    \/ handleWithdrawProve
          /\ UNCHANGED <<poolVars, replicaVars, stealthVars, indexerVars>>
    \/ handleWithdrawSubmit
          /\ UNCHANGED <<poolVars, replicaVars, stealthVars, indexerVars>>
    \/ handleWithdrawConfirm
          /\ UNCHANGED <<poolVars, replicaVars, stealthVars, indexerVars>>
    \/ IndexWithdrawal
          /\ UNCHANGED <<poolVars, replicaVars, stealthVars, indexerVars>>

ScannerNext ==
    \/ MineBlock /\ UNCHANGED <<poolVars, replicaVars, stealthVars, uiVars, wsVars,
                         restVars>>
    \/ start /\ UNCHANGED <<poolVars, replicaVars, stealthVars, uiVars, wsVars,
                         restVars>>
    \/ scanEvents /\ UNCHANGED <<poolVars, replicaVars, stealthVars, uiVars, wsVars,
                         restVars>>
    \/ scanAnnouncements
          /\ UNCHANGED <<poolVars, replicaVars, stealthVars, uiVars, wsVars,
                         restVars>>
    \/ scanDeposits /\ UNCHANGED <<poolVars, replicaVars, stealthVars, uiVars, wsVars,
                         restVars>>
    \/ scanWithdrawals
          /\ UNCHANGED <<poolVars, replicaVars, stealthVars, uiVars, wsVars,
                         restVars>>
    \/ scanUpdateState
          /\ UNCHANGED <<poolVars, replicaVars, stealthVars, uiVars, wsVars,
                         restVars>>
    \/ scanThrows /\ UNCHANGED <<poolVars, replicaVars, stealthVars, uiVars, wsVars,
                         restVars>>

\* The variables the scanner and the chain leave alone.
otherThanScannerVars ==
    <<poolVars, replicaVars, stealthVars, uiVars, wsVars, restVars>>

\* The scanner while every RPC call and every database call that can
\* succeed answers: the steps of ScannerNext without scanThrows.
ScannerLiveNext ==
    \/ MineBlock /\ UNCHANGED otherThanScannerVars
    \/ start /\ UNCHANGED otherThanScannerVars
    \/ scanEvents /\ UNCHANGED otherThanScannerVars
    \/ scanAnnouncements /\ UNCHANGED otherThanScannerVars
    \/ scanDeposits /\ UNCHANGED otherThanScannerVars
    \/ scanWithdrawals /\ UNCHANGED otherThanScannerVars
    \/ scanUpdateState /\ UNCHANGED otherThanScannerVars

\* The ShieldedPool contract under arbitrary deposits and withdrawals.
InitPool ==
    PoolInit /\ ReplicaInit /\ StealthIdle /\ UiIdle /\ ScannerIdle
    /\ WsInit /\ PayInit /\ NotesInit /\ BindInit /\ LateInit

SpecPool == InitPool /\ [][PoolNext]_vars

\* The pool under deposits until and beyond a full tree.
InitCapacity ==
    PoolInit /\ ReplicaInit /\ StealthIdle /\ UiIdle /\ ScannerIdle
    /\ WsInit /\ PayInit /\ NotesInit /\ BindInit /\ LateInit

SpecCapacity == InitCapacity /\ [][CapacityNext]_vars

\* The contract's tree next to the indexer's replica of it.
InitReplica ==
    PoolInit /\ ReplicaInit /\ StealthIdle /\ UiIdle /\ ScannerIdle
    /\ WsInit /\ PayInit /\ NotesInit /\ BindInit /\ LateInit

SpecReplica == InitReplica /\ [][ReplicaNext]_vars

\* The indexer and its WebSocket clients; the scanner's ticks and the
\* rebuild timer keep firing.
InitNotify ==
    PoolInit /\ ReplicaInit /\ StealthIdle /\ UiIdle /\ ScannerIdle
    /\ WsInit /\ PayInit /\ NotesInit /\ BindInit /\ LateInit

SpecNotify ==
    /\ InitNotify
    /\ [][NotifyNext]_vars
    /\ WF_vars(StoreDeposit /\ UNCHANGED <<stealthVars, uiVars, scanOnlyVars,
                                           wsVars>>)
    /\ WF_vars(rebuildTimer /\ UNCHANGED <<stealthVars, uiVars, scanOnlyVars>>)

\* Payments through StealthPay.
InitStealthPay ==
    PoolInit /\ ReplicaInit /\ StealthIdle /\ UiIdle /\ ScannerIdle
    /\ WsInit /\ PayInit /\ NotesInit /\ BindInit /\ LateInit

SpecStealthPay == InitStealthPay /\ [][StealthPayNext]_vars

\* Deposit notes generated by the SDK.
InitNotes ==
    PoolInit /\ ReplicaInit /\ StealthIdle /\ UiIdle /\ ScannerIdle
    /\ WsInit /\ PayInit /\ NotesInit /\ BindInit /\ LateInit

SpecNotes == InitNotes /\ [][NotesNext]_vars

\* The pool with depositors who choose their commitments and withdrawers
\* who prove what the circuit lets them prove.
InitBinding ==
    PoolInit /\ ReplicaInit /\ StealthIdle /\ UiIdle /\ ScannerIdle
    /\ WsInit /\ PayInit /\ NotesInit /\ BindInit /\ LateInit

SpecBinding == InitBinding /\ [][BindNext]_vars

\* The pool, and an orchestrator that verifies the root and withdraws later.
InitStale ==
    PoolInit /\ ReplicaInit /\ StealthIdle /\ UiIdle /\ ScannerIdle
    /\ WsInit /\ PayInit /\ NotesInit /\ BindInit /\ LateInit

SpecStale == InitStale /\ [][StaleNext]_vars

\* The replica of an indexer whose scanner starts at any moment of the
\* pool's life.
InitAlign ==
    PoolInit /\ ReplicaInit /\ StealthIdle /\ UiIdle /\ ScannerIdle
    /\ WsInit /\ PayInit /\ NotesInit /\ BindInit /\ LateInit

SpecAlign == InitAlign /\ [][AlignNext]_vars

\* The indexer with its two callers of buildFromDatabase.
InitRebuild ==
    PoolInit /\ ReplicaInit /\ StealthIdle /\ UiIdle /\ ScannerIdle
    /\ WsInit /\ PayInit /\ NotesInit /\ BindInit /\ LateInit

SpecRebuild == InitRebuild /\ [][RebuildNext]_vars

\* The indexed announcements and the scans of a recipient who holds keys.
InitAnnounce ==
    PoolInit /\ ReplicaInit /\ StealthInit /\ ScanKeys /\ UiIdle /\ ScannerIdle
    /\ WsInit /\ PayInit /\ NotesInit /\ BindInit
    /\ StaleInit /\ AlignInit /\ RebuildInit /\ AnnounceInit /\ ReenterInit

SpecAnnounce == InitAnnounce /\ [][AnnounceNext]_vars

\* The pool, its withdrawals and the callbacks of their recipients.
InitReenter ==
    PoolInit /\ ReplicaInit /\ StealthIdle /\ UiIdle /\ ScannerIdle
    /\ WsInit /\ PayInit /\ NotesInit /\ BindInit /\ LateInit

SpecReenter == InitReenter /\ [][ReenterNext]_vars

\* A stealth payment between a sender and a recipient.
InitStealth ==
    PoolInit /\ ReplicaInit /\ StealthInit /\ UiIdle /\ ScannerIdle
    /\ WsInit /\ PayInit /\ NotesInit /\ BindInit /\ LateInit

SpecStealth == InitStealth /\ [][StealthNext]_vars

\* Withdrawal attempts of the shield page.
InitWithdrawFlow ==
    PoolInit /\ ReplicaInit /\ StealthIdle /\ UiIdle /\ ScannerIdle
    /\ WsInit /\ PayInit /\ NotesInit /\ BindInit /\ LateInit

SpecWithdrawFlow == InitWithdrawFlow /\ [][WithdrawFlowNext]_vars

\* The event scanner of the indexer on a growing chain.
InitScanner ==
    PoolInit /\ ReplicaInit /\ StealthIdle /\ UiIdle /\ ScannerInit
    /\ WsInit /\ PayInit /\ NotesInit /\ BindInit /\ LateInit

SpecScanner == InitScanner /\ [][ScannerNext]_vars

\* The scanner under fair scheduling: start is called, setInterval keeps
\* firing scanEvents, and every await of a running scan resumes.  The
\* chain may stop growing at any block.
InitScannerLive ==
    PoolInit /\ ReplicaInit /\ StealthIdle /\ UiIdle /\ ScannerInit
    /\ WsInit /\ PayInit /\ NotesInit /\ BindInit /\ LateInit

SpecScannerLive ==
    /\ InitScannerLive
    /\ [][ScannerLiveNext]_vars
    /\ WF_vars(start /\ UNCHANGED otherThanScannerVars)
    /\ WF_vars(scanEvents /\ UNCHANGED otherThanScannerVars)
    /\ WF_vars(scanAnnouncements /\ UNCHANGED otherThanScannerVars)
    /\ WF_vars(scanDeposits /\ UNCHANGED otherThanScannerVars)
    /\ WF_vars(scanWithdrawals /\ UNCHANGED otherThanScannerVars)
    /\ WF_vars(scanUpdateState /\ UNCHANGED otherThanScannerVars)

(***************************************************************************)
(* Properties of the pool                                                  *)
(***************************************************************************)
LastWithdrawReused == lastTx.op = "withdraw" /\ lastTx.usedBefore

\* C1 as stated: at most one withdraw per nullifierHash succeeds, and every
\* later withdraw with that nullifierHash reverts with NullifierAlreadyUsed
\* and pays nothing.
C1_EveryLaterRevertsNullifierAlreadyUsed ==
    /\ \A n \in NullifierHashes : successCount[n] <= 1
    /\ LastWithdrawReused =>
          (lastTx.outcome = "NullifierAlreadyUsed" /\ lastTx.paid = 0)

\* C1 amended: at most one withdraw per nullifierHash succeeds; every later
\* withdraw with that nullifierHash reverts and pays nothing, and the revert
\* is NullifierAlreadyUsed whenever its amount is a supported denomination
\* and its root is known.
C1_AtMostOneWithdrawPerNullifier ==
    /\ \A n \in NullifierHashes : successCount[n] <= 1
    /\ LastWithdrawReused =>
          /\ lastTx.outcome # "ok"
          /\ lastTx.paid = 0
          /\ (lastTx.amount \in Denominations /\ lastTx.knownBefore)
                => lastTx.outcome = "NullifierAlreadyUsed"

C1_Witness ==
    /\ LastWithdrawReused
    /\ lastTx.outcome = "NullifierAlreadyUsed"
    /\ successCount[lastTx.nullifierHash] = 1

\* C5: each of the ROOT_HISTORY_SIZE most recent roots, the current one
\* included, is a known root.
C5_RecentRootsKnown ==
    \A i \in 0 .. currentRootIndex :
        (currentRootIndex - i < ROOT_HISTORY_SIZE) => isKnownRoot(roots[i])

C5_Witness ==
    /\ currentRootIndex > ROOT_HISTORY_SIZE
    /\ isKnownRoot(roots[currentRootIndex - ROOT_HISTORY_SIZE + 1])
    /\ ~isKnownRoot(roots[0])

\* The root value at index i occurs only among the roots older than the
\* ROOT_HISTORY_SIZE most recent ones.
OnlyAmongOldRoots(i) ==
    \A j \in 0 .. currentRootIndex :
        roots[j] = roots[i] => currentRootIndex - j >= ROOT_HISTORY_SIZE

\* C6 as stated: a root value that occurs only among roots older than the
\* ROOT_HISTORY_SIZE most recent ones is not a known root, and a withdraw
\* built on it reverts with InvalidMerkleRoot.
C6_OldRootsRejected ==
    \A i \in 0 .. currentRootIndex :
        OnlyAmongOldRoots(i) => ~isKnownRoot(roots[i])

(***************************************************************************)
(* Properties of the replica                                               *)
(***************************************************************************)
\* C2 as stated: the path getMerklePath returns, folded by the circuit's
\* MerkleTreeChecker from its leaf, evaluates to the root it returns.
C2_PathVerifies ==
    path.found =>
        MerkleTreeChecker(path.leaf, path.pathElements, path.pathIndices,
                          path.root)

\* C3: after every insertion the root the replaying replica computes for the
\* first k leaves is the root the contract stored after its k-th insertion.
C3_ReplayRootParity ==
    /\ getCurrentRoot(leaves) = roots[Len(leaves)]
    /\ Len(leaves) = Len(chainLeaves) => getCurrentRoot(leaves) = getRoot

C3_Witness ==
    /\ Len(leaves) >= 3
    /\ Len(leaves) = Len(chainLeaves)
    /\ \E i, j \in 1 .. Len(leaves) : leaves[i] # leaves[j]
    /\ getCurrentRoot(leaves) = getRoot

(***************************************************************************)
(* Properties of stealth addresses                                         *)
(***************************************************************************)
\* C8: whenever generateStealthAddress returned for the recipient's
\* meta-address, the stealth private key the recipient computes from the
\* ephemeral public key passes checkStealthAddress against the returned
\* stealth address.
C8_StealthRoundTrip ==
    (stealthInfo.ok /\ scanResult.done) =>
        (scanResult.key.ok /\ scanResult.check = "match")

C8_Witness ==
    /\ stealthInfo.ok
    /\ scanResult.done
    /\ scanResult.check = "match"
    /\ viewingKeypair # spendingKeypair
    /\ spendingKeypair.privateKey + senderSecret.secret >= Curve.n

\* C9: for valid keypairs (e, E) and (v, V) the sender's shared secret from
\* (e, V) equals the recipient's shared secret from (v, E).
C9_EcdhCommutes ==
    (ephemeralKeypair.ok /\ recipientSecret.ok) =>
        (senderSecret.ok /\ senderSecret.secret = recipientSecret.secret)

C9_Witness ==
    /\ ephemeralKeypair.ok
    /\ recipientSecret.ok
    /\ senderSecret = recipientSecret
    /\ ephemeralKeypair.privateKey # viewingKeypair.privateKey

\* C4 as stated: the level-by-level getCurrentRoot returns the contract's
\* root after the same leaves.
C4_LevelRootParity ==
    Len(leaves) = Len(chainLeaves) => getCurrentRootByLevels(leaves) = getRoot

(***************************************************************************)
(* Properties of the withdrawal orchestrator                               *)
(***************************************************************************)
FlowOrder ==
    <<"ParseNote", "FetchPath", "VerifyRoot", "BuildWitness", "Prove",
      "Submit", "Confirm">>

IsPrefix(s, t) ==
    /\ Len(s) <= Len(t)
    /\ \A i \in 1 .. Len(s) : s[i] = t[i]

Entered(step) == \E i \in 1 .. Len(uiSteps) : uiSteps[i] = step

\* The attempt compared a root of the replica with a different root of the
\* contract.
RootsDisagree ==
    /\ Entered("VerifyRoot")
    /\ uiContractRoot \in ContractRoots
    /\ BigIntOk(uiMerklePath.root)
    /\ BigInt(uiMerklePath.root) # uiContractRoot

\* C7: the stages of every withdrawal attempt are entered in the order
\* ParseNote, FetchPath, VerifyRoot, BuildWitness, Prove, Submit, Confirm;
\* the prover and the wallet are called only after the replica's root was
\* compared equal to the root read from the contract; the step that finds
\* the two roots different ends the attempt with the root-mismatch error,
\* and such an attempt never proves or submits.
C7_OrchestrationOrder ==
    /\ [](/\ IsPrefix(uiSteps, FlowOrder)
          /\ (uiProverInput.called \/ uiTx.sent) =>
                /\ Entered("VerifyRoot")
                /\ BigIntOk(uiMerklePath.root)
                /\ BigInt(uiMerklePath.root) = uiContractRoot
          /\ uiTx.sent => uiProverInput.called
          /\ RootsDisagree =>
                uiPc = "idle" /\ ~uiProverInput.called /\ ~uiTx.sent)
    /\ [][(uiPc = "verifyRoot" /\ RootsDisagree') =>
             uiPc' = "idle" /\ uiOutcome' = "RootMismatch"]_vars

\* A complete attempt whose replica root is spelled differently from the
\* contract's root but denotes the same number.
C7_Witness ==
    /\ uiSteps = FlowOrder
    /\ uiOutcome = "success"
    /\ uiMerklePath.root = "0x1"
    /\ uiTx.sent

(***************************************************************************)
(* Properties of the event scanner                                         *)
(***************************************************************************)
\* The table the running loop writes and the row of its next log.
LoopTable ==
    CASE scanPc = "upsertAnnouncements" -> announcements
      [] scanPc = "upsertDeposits" -> deposits
      [] OTHER -> withdrawals

ReprocessingStored ==
    /\ scanPc \in {"upsertAnnouncements", "upsertDeposits",
                   "upsertWithdrawals"}
    /\ hasKey(LoopTable, createRow(Head(scanLogs)))

NoDuplicateKey(table) ==
    \A i, j \in 1 .. Len(table) :
        (/\ table[i].transactionHash = table[j].transactionHash
         /\ table[i].logIndex = table[j].logIndex) => i = j

RowsAsEmitted(table, kind) ==
    \A i \in 1 .. Len(table) :
        LET b == table[i].blockNumber
            idx == table[i].logIndex + 1
        IN  /\ b \in 0 .. getBlockNumber(chain)
            /\ idx \in 1 .. Len(chain[b + 1])
            /\ LogOf(chain, b, idx).kind = kind
            /\ table[i] = createRow(LogOf(chain, b, idx))

\* C10: the upsert of an event whose (transactionHash, logIndex) is already
\* stored leaves the announcement, deposit and withdrawal tables as they
\* were; no table ever holds two rows of one key, and every row is the row
\* created from the event it was stored for.
C10_ReprocessingIsNoOp ==
    /\ [][ReprocessingStored =>
             UNCHANGED <<announcements, deposits, withdrawals>>]_vars
    /\ [](/\ NoDuplicateKey(announcements)
          /\ NoDuplicateKey(deposits)
          /\ NoDuplicateKey(withdrawals)
          /\ RowsAsEmitted(announcements, "Announcement")
          /\ RowsAsEmitted(deposits, "Deposit")
          /\ RowsAsEmitted(withdrawals, "Withdrawal"))

\* A second pass over a range stored a deposit's key again, with an
\* announcement and a deposit already in the tables.
C10_Witness ==
    /\ lastUpsert.kind = "Deposit"
    /\ lastUpsert.existed
    /\ lastUpsert.ok
    /\ Len(announcements) >= 1
    /\ Len(deposits) >= 1

\* A scan tick ends without having moved the cursor to its toBlock.
TickFails ==
    /\ isScanning
    /\ ~isScanning'
    /\ (scanPc # "updateState" \/ scannerState' = scannerState)

RowInRange(table, fromBlock, toBlock) ==
    \E i \in 1 .. Len(table) : table[i].blockNumber \in fromBlock .. toBlock

\* C11 as stated: when a step of a scan tick fails, lastBlockScanned keeps
\* its value, no table holds a row of the failed range, and the next tick
\* starts at the same fromBlock.
C11_FailedTickCommitsNothing ==
    /\ [][TickFails =>
             /\ scannerState' = scannerState
             /\ ~RowInRange(announcements', scanFrom, scanTo)
             /\ ~RowInRange(deposits', scanFrom, scanTo)
             /\ ~RowInRange(withdrawals', scanFrom, scanTo)]_vars
    /\ [][(scanPc = "idle" /\ isScanning') =>
             scanFrom' = scannerState.lastBlockScanned + 1]_vars

\* C12 as stated: an attempt for a note whose nullifierHash the pool has
\* already recorded is rejected off-chain: it neither calls the prover nor
\* submits a transaction.
C12_SpentNoteRejectedOffChain ==
    (uiPc # "idle" /\ uiNote.ok /\ uiNote.nullifierHash \in spentNullifiers)
        => (~uiProverInput.called /\ ~uiTx.sent)

\* C13: the step that waits for the receipt of a submitted transaction and
\* gets no receipt (timeout or any other error) ends the attempt with the
\* submitted outcome, never with the error outcome; no attempt that has
\* submitted its transaction reports the error outcome.
C13_NoReceiptIsPending ==
    [][(uiPc = "confirm" /\ uiPc' = "idle") =>
         /\ uiOutcome' # "error"
         /\ uiReceipt' \in ReceiptErrors => uiOutcome' = "submitted"
         /\ ~uiWithdrawing']_vars

\* A complete attempt whose receipt wait timed out.
C13_Witness ==
    /\ uiSteps = FlowOrder
    /\ uiTx.sent
    /\ uiReceipt = "WaitForTransactionReceiptTimeoutError"
    /\ uiOutcome = "submitted"

(***************************************************************************)
(* Properties of deposit and withdraw                                      *)
(***************************************************************************)
\* A deposit that reverted for its amount or its value changed nothing.
RejectedDepositChangesNothing ==
    [][(lastTx'.op = "deposit"
          /\ lastTx'.outcome \in {"InvalidDenomination", "InvalidAmount"}) =>
         UNCHANGED <<nextLeafIndex, filledSubtrees, roots, currentRootIndex,
                     poolBalance, chainLeaves>>]_vars

\* C14 as stated: deposit reverts with InvalidDenomination whenever amount is
\* not a supported denomination and with InvalidAmount whenever msg.value
\* differs from amount; both leave the tree, nextLeafIndex, the balance and
\* the Deposit events as they were.
C14_DepositRevertsAsStated ==
    /\ [](lastTx.op = "deposit" =>
            /\ lastTx.amount \notin Denominations =>
                  lastTx.outcome = "InvalidDenomination"
            /\ lastTx.value # lastTx.amount =>
                  lastTx.outcome = "InvalidAmount")
    /\ RejectedDepositChangesNothing

\* C14, amended: InvalidDenomination whenever amount is not supported;
\* InvalidAmount whenever amount is supported and msg.value differs from it;
\* both leave the tree, nextLeafIndex, the balance and the Deposit events as
\* they were.
C14_DepositReverts ==
    /\ [](lastTx.op = "deposit" =>
            /\ lastTx.amount \notin Denominations =>
                  lastTx.outcome = "InvalidDenomination"
            /\ (lastTx.amount \in Denominations
                  /\ lastTx.value # lastTx.amount) =>
                  lastTx.outcome = "InvalidAmount")
    /\ RejectedDepositChangesNothing

\* A deposit of an unsupported amount with another msg.value was rejected
\* by a pool that holds deposits.
C14_Witness ==
    /\ lastTx.op = "deposit"
    /\ lastTx.amount \notin Denominations
    /\ lastTx.value # lastTx.amount
    /\ lastTx.outcome = "InvalidDenomination"
    /\ nextLeafIndex >= 1
    /\ poolBalance >= 1

\* C15: the Deposit event of a successful deposit carries the number of
\* successful deposits before it as leafIndex, getNextLeafIndex is the
\* number of successful deposits so far, and every step leaves it as it is
\* or raises it by one (exactly when a deposit succeeds).
C15_LeafIndexing ==
    /\ [](/\ getNextLeafIndex = Len(chainLeaves)
          /\ (lastTx.op = "deposit" /\ lastTx.outcome = "ok") =>
                lastTx.leafIndex = Len(chainLeaves) - 1)
    /\ [][IF lastTx'.op = "deposit" /\ lastTx'.outcome = "ok"
          THEN /\ lastTx'.leafIndex = nextLeafIndex
               /\ nextLeafIndex' = nextLeafIndex + 1
          ELSE nextLeafIndex' = nextLeafIndex]_vars

\* The third successful deposit was given leafIndex 2.
C15_Witness ==
    /\ lastTx.op = "deposit"
    /\ lastTx.outcome = "ok"
    /\ lastTx.leafIndex = 2
    /\ nullifiers # {}

\* C16: in every state of the pool the current root is a known root (the
\* root of the empty tree included), the root that was current before the
\* latest deposit is a known root, and zero is not a known root.
C16_CurrentRootKnown ==
    /\ isKnownRoot(getRoot)
    /\ currentRootIndex >= 1 => isKnownRoot(roots[currentRootIndex - 1])
    /\ ~isKnownRoot(Zero)

\* After three deposits the current root and its predecessor differ.
C16_Witness ==
    /\ currentRootIndex = 3
    /\ getRoot # roots[currentRootIndex - 1]
    /\ lastTx.op = "deposit"
    /\ lastTx.outcome = "ok"

\* C17: withdraw reverts when the amount is not a supported denomination,
\* the root is not known, the recipient is the zero address, the verifier
\* rejects the proof or the transfer fails; a withdraw that reverted left
\* the nullifier set, the tree and the balance as they were and paid
\* nothing.
C17_RevertedWithdrawChangesNothing ==
    /\ [](\A r \in RootInputs, n \in NullifierHashes, rc \in Recipients,
              a \in Amounts, proofOk \in BOOLEAN, callOk \in BOOLEAN :
              (\/ a \notin Denominations
               \/ ~isKnownRoot(r)
               \/ rc = 0
               \/ ~proofOk
               \/ ~callOk) =>
                 WithdrawOutcome(r, n, rc, a, proofOk, callOk) # "ok")
    /\ []((lastTx.op = "withdraw" /\ lastTx.outcome # "ok") =>
            /\ lastTx.paid = 0
            /\ isNullifierUsed(lastTx.nullifierHash) = lastTx.usedBefore)
    /\ [][(lastTx'.op = "withdraw" /\ lastTx'.outcome # "ok") =>
            UNCHANGED <<nullifiers, nextLeafIndex, filledSubtrees, roots,
                        currentRootIndex, poolBalance, chainLeaves>>]_vars

\* A withdraw of an unused nullifierHash with a known root and an accepted
\* proof reverted because the transfer failed.
C17_Witness ==
    /\ lastTx.op = "withdraw"
    /\ lastTx.outcome = "TransferFailed"
    /\ lastTx.knownBefore
    /\ ~lastTx.usedBefore
    /\ ~isNullifierUsed(lastTx.nullifierHash)
    /\ poolBalance >= lastTx.amount

\* The latest attempt (a click without a wallet is none) asked for the path
\* and met an indexer whose deposit table has
\* no row for the note's commitment, or whose in-memory tree does not yet
\* contain the row's leaf (FlowCommitments[k] is stored at leaf k - 1).
CommitmentNotIndexed ==
    /\ uiFetch.requested
    /\ uiOutcome # "WalletNotConnected"
    /\ LET rows == {k \in 1 .. uiFetch.stored :
                      FlowCommitments[k] = uiNote.commitment}
       IN  \/ rows = {}
           \/ \A k \in rows : k - 1 >= uiFetch.built

C19_SampledKeyAlwaysValid ==
    keygen.called =>
        /\ keygen.keypair.ok => ValidScalar(keygen.keypair.privateKey)
        /\ keygen.sampled => keygen.keypair.ok

\* C20: with depth TREE_DEPTH the insert of a deposit succeeds for exactly
\* the first 2^TREE_DEPTH leaves (indices 0 .. MAX_LEAVES - 1); every further
\* deposit fails with the tree-full error and leaves filledSubtrees, the
\* stored roots, currentRootIndex and nextLeafIndex unchanged.
C20_TreeCapacity ==
    /\ [](/\ nextLeafIndex <= MAX_LEAVES
          /\ Len(chainLeaves) = nextLeafIndex
          /\ DepositOutcome(CapacityAmount, CapacityAmount) =
               (IF nextLeafIndex < MAX_LEAVES THEN "ok" ELSE "TreeFull")
          /\ (lastTx.op = "deposit" /\ lastTx.outcome = "ok") =>
               lastTx.leafIndex < MAX_LEAVES)
    /\ [][IF nextLeafIndex < MAX_LEAVES
          THEN /\ lastTx'.outcome = "ok"
               /\ lastTx'.leafIndex = nextLeafIndex
               /\ nextLeafIndex' = nextLeafIndex + 1
               /\ Len(chainLeaves') = Len(chainLeaves) + 1
          ELSE /\ lastTx'.outcome = "TreeFull"
               /\ UNCHANGED <<filledSubtrees, roots, currentRootIndex,
                              nextLeafIndex, chainLeaves, poolBalance>>]_vars

\* The tree holds 2^TREE_DEPTH leaves and one more deposit was rejected.
C20_Witness ==
    /\ nextLeafIndex = MAX_LEAVES
    /\ Len(chainLeaves) = MAX_LEAVES
    /\ lastTx.op = "deposit"
    /\ lastTx.outcome = "TreeFull"

\* C21: every running scan queries the blocks scanFrom .. scanTo with
\* scanFrom = lastBlockScanned + 1, scanTo not above the chain head, and the
\* range holds at most BLOCKS_PER_SCAN blocks.
C21_BoundedScanRange ==
    isScanning =>
        /\ scanFrom = scannerState.lastBlockScanned + 1
        /\ scanFrom <= scanTo
        /\ scanTo <= getBlockNumber(chain)
        /\ scanTo - scanFrom + 1 <= BLOCKS_PER_SCAN

\* The table that stores the rows of each kind of event.
TableOf(kind) ==
    CASE kind = "Announcement" -> announcements
      [] kind = "Deposit" -> deposits
      [] OTHER -> withdrawals

\* C22: block START_BLOCK is part of the first scanned range: once a scan
\* moved the cursor beyond START_BLOCK, every event emitted in block
\* START_BLOCK has its row.
C22_StartBlockIndexed ==
    (scannerState.exists /\ scannerState.lastBlockScanned > START_BLOCK) =>
        \A idx \in 1 .. Len(chain[START_BLOCK + 1]) :
            LET log == LogOf(chain, START_BLOCK, idx)
            IN  hasKey(TableOf(log.kind), createRow(log))

\* C23: whenever the scanner has stored a deposit, a message of type
\* 'deposit' is eventually broadcast (and so sent to every connected client
\* whose socket is open).
C23_StoredDepositIsBroadcast ==
    (Len(deposits) > 0) ~> ("deposit" \in wsBroadcasts)

\* The step is a call of sendEtherStealth or sendTokenStealth (approve is
\* the only other step, and it changes the allowance and nothing else).
PayCallStep == payLast'.op # "none" /\ (payLast' # payLast \/ payEth' # payEth
                                         \/ payTok' # payTok)

\* What every successful sendEtherStealth does besides crediting the stealth
\* address.
EtherSentEffects ==
    LET t == payLast'
    IN  /\ payEth'[StealthPayAddr] = payEth[StealthPayAddr]
        /\ Len(t.announcements) = 1
        /\ t.announcements[1].caller = StealthPayAddr
        /\ t.announcements[1].stealthAddress = t.stealthAddress
        /\ t.payments = <<[stealthAddress |-> t.stealthAddress,
                           asset |-> ZeroAddr, amount |-> t.amount,
                           caller |-> Alice]>>
        /\ UNCHANGED <<payTok, payAllowance>>

EtherSentStep ==
    /\ PayCallStep
    /\ payLast'.op = "sendEtherStealth"
    /\ payLast'.outcome = "ok"

\* C24 as stated: every successful sendEtherStealth increases the stealth
\* address's balance by exactly msg.value, whoever the stealth address is.
C24_EverySendCreditsStealthAddress ==
    /\ [](payEth[StealthAddr] = paySent)
    /\ [][EtherSentStep =>
            /\ payEth'[payLast'.stealthAddress] =
                 payEth[payLast'.stealthAddress] + payLast'.amount
            /\ EtherSentEffects]_vars

\* C24 (amended): every successful sendEtherStealth to a stealth address
\* other than the caller increases that address's balance by exactly
\* msg.value (a caller who names itself ends with the balance it had); it
\* leaves StealthPay's balance unchanged and emits one Announcement whose
\* caller is StealthPay and one StealthPayment; the stealth address holds
\* the sum of the values sent to it.
C24_SendCreditsStealthAddress ==
    /\ [](payEth[StealthAddr] = paySent)
    /\ [][EtherSentStep =>
            /\ payEth'[payLast'.stealthAddress] =
                 payEth[payLast'.stealthAddress]
                 + (IF payLast'.stealthAddress = Alice THEN 0
                    ELSE payLast'.amount)
            /\ payLast'.stealthAddress # Alice =>
                 payEth'[Alice] = payEth[Alice] - payLast'.amount
            /\ EtherSentEffects]_vars

\* Several payments brought the whole of the sender's funds to the stealth
\* address.
C24_Witness ==
    /\ payLast.op = "sendEtherStealth"
    /\ payLast.outcome = "ok"
    /\ payLast.stealthAddress = StealthAddr
    /\ payLast.amount < MaxFunds
    /\ paySent = MaxFunds
    /\ payEth[StealthAddr] = MaxFunds

\* A call that reverted for a zero amount or a zero address moved nothing
\* and emitted nothing.
ZeroRevertMovesNothing ==
    (PayCallStep /\ payLast'.outcome \in {"ZeroAmount", "ZeroAddress"}) =>
        /\ UNCHANGED <<payEth, payTok, payAllowance, paySent>>
        /\ payLast'.announcements = <<>>
        /\ payLast'.payments = <<>>

\* The latest call named address(0) as stealth address or as token.
PayZeroAddressGiven ==
    \/ payLast.stealthAddress = ZeroAddr
    \/ payLast.op = "sendTokenStealth" /\ payLast.token = ZeroAddr

\* C25 as stated: ZeroAmount whenever the amount is 0, and ZeroAddress
\* whenever the stealth address or the token is zero.
C25_ZeroRevertsAsStated ==
    /\ [](payLast.op # "none" =>
            /\ payLast.amount = 0 => payLast.outcome = "ZeroAmount"
            /\ PayZeroAddressGiven => payLast.outcome = "ZeroAddress")
    /\ [][ZeroRevertMovesNothing]_vars

\* C25 (amended): sendEtherStealth and sendTokenStealth revert with
\* ZeroAmount when the amount is 0 (whatever the addresses are) and with
\* ZeroAddress when the amount is not 0 and the stealth address or the token
\* is zero; in each case no value or token moves and no Announcement or
\* StealthPayment is emitted.
C25_ZeroReverts ==
    /\ [](payLast.op # "none" =>
            /\ payLast.amount = 0 => payLast.outcome = "ZeroAmount"
            /\ (payLast.amount # 0 /\ PayZeroAddressGiven) =>
                 payLast.outcome = "ZeroAddress"
            /\ payLast.outcome = "ZeroAmount" => payLast.amount = 0
            /\ payLast.outcome = "ZeroAddress" => PayZeroAddressGiven)
    /\ [][ZeroRevertMovesNothing]_vars

\* A token payment with a zero token address was rejected while the sender
\* held tokens and an allowance.
C25_Witness ==
    /\ payLast.op = "sendTokenStealth"
    /\ payLast.outcome = "ZeroAddress"
    /\ payLast.token = ZeroAddr
    /\ payLast.stealthAddress = StealthAddr
    /\ payLast.amount > 0
    /\ payAllowance >= payLast.amount
    /\ payTok[Alice] >= payLast.amount

\* C26: two notes with the same nullifier have the same nullifierHash,
\* whatever their amounts and secrets are; the nullifierHash of a generated
\* note is the hash of its nullifier alone.
C26_NullifierIndependence ==
    \A i, j \in 1 .. Len(notes) :
        /\ notes[i].nullifier = notes[j].nullifier =>
             notes[i].nullifierHash = notes[j].nullifierHash
        /\ \E n \in 0 .. (FIELD_SIZE - 1) :
             /\ notes[i].nullifier = toString(n)
             /\ notes[i].nullifierHash = toString(computeNullifierHash(n))

\* Two notes share the nullifier and differ in amount, secret and
\* commitment.
C26_Witness ==
    /\ Len(notes) >= 2
    /\ notes[1].nullifier = notes[2].nullifier
    /\ notes[1].amount # notes[2].amount
    /\ notes[1].secret # notes[2].secret
    /\ notes[1].commitment # notes[2].commitment
    /\ notes[1].nullifierHash = notes[2].nullifierHash

\* C27: the values passed to withdraw (root, nullifierHash, recipient,
\* amount) are, in this order, the public inputs given to the prover, and
\* the public signals the contract hands to the verifier are the public
\* signals the circuit declares for that proof.
C27_WitnessConsistency ==
    uiTx.sent =>
        /\ uiProverInput.called
        /\ withdrawArgs(uiTx) =
             <<BigInt(uiProverInput.root), uiProverInput.nullifierHash,
               uiProverInput.recipient, uiProverInput.amount>>
        /\ pubSignals(withdrawArgs(uiTx)[1], withdrawArgs(uiTx)[2],
                      withdrawArgs(uiTx)[3], withdrawArgs(uiTx)[4]) =
             circuitPublicSignals(uiProverInput)

\* A withdrawal was submitted whose root, nullifierHash, recipient and
\* amount are four different values, the root given as 0x-text.
C27_Witness ==
    /\ uiTx.sent
    /\ uiProverInput.root = "0x1"
    /\ uiTx.root = 1
    /\ uiTx.nullifierHash = 2
    /\ uiTx.recipient = "other"

\* Bit l of the leaf index i.
BitOf(i, l) == (i \div Pow2(l)) % 2

\* C28: for the leaf i a returned path is for and every level l,
\* pathElements[l] is the filledSubtrees[l] value the contract's insert read
\* at level l while inserting leaf i, pathIndices[l] is bit l of i, and
\* folding the path from the leaf yields the root the contract stored right
\* after inserting leaf i.
C28_PreInsertionSiblings ==
    path.found =>
        LET i == path.leafIndex
            before == TreeAfter(chainLeaves, i)
            reads == InsertReads(0, i, chainLeaves[i + 1],
                                 before.filledSubtrees)
        IN  /\ i < Len(chainLeaves)
            /\ path.leaf = chainLeaves[i + 1]
            /\ \A l \in Levels :
                  /\ path.pathElements[l + 1] = reads[l + 1]
                  /\ path.pathIndices[l + 1] = BitOf(i, l)
            /\ CheckerHashes(1, path.leaf, path.pathElements,
                             path.pathIndices) = roots[i + 1]

\* A path for a leaf at an odd index above 1, returned when the tree has
\* grown past that leaf.
C28_Witness ==
    /\ path.found
    /\ path.leafIndex = 3
    /\ Len(leaves) > 4
    /\ path.pathElements[1] # zeroHashes(0)
    /\ path.pathElements[2] # zeroHashes(1)
    /\ path.root # roots[path.leafIndex + 1]

C30_DepositAmountBinding ==
    \A k \in 1 .. Len(payouts) :
        payouts[k].amount = depositValues[payouts[k].leafIndex + 1]

\* C31: a withdraw sent with a root that was the contract's current root
\* when the orchestrator verified it, executed after fewer than
\* ROOT_HISTORY_SIZE deposits were inserted since, does not revert with
\* InvalidMerkleRoot.
C31_StaleRootTolerated ==
    (staleTx.done /\ staleTx.between < ROOT_HISTORY_SIZE)
        => staleTx.outcome # "InvalidMerkleRoot"

\* A withdraw that succeeded on a root ROOT_HISTORY_SIZE - 1 deposits old,
\* in a tree that has dropped its first root.
C31_Witness ==
    /\ staleTx.done
    /\ staleTx.between = ROOT_HISTORY_SIZE - 1
    /\ staleTx.outcome = "ok"
    /\ verified.root # getRoot
    /\ ~isKnownRoot(roots[0])

EventStreams == {"Announcement", "Deposit", "Withdrawal"}

\* C32: every block b with START_BLOCK < b <= lastBlockScanned was queried,
\* for each of the three event streams, by a scan that went on to update
\* the cursor, and each of its events is stored; the cursor only moves
\* forward, from its old value to the toBlock of the running scan, which
\* starts right above the old value and is not above the chain head read
\* when the scan began.
C32_ContiguousCoverage ==
    /\ [](scannerState.exists =>
            \A b \in (START_BLOCK + 1) .. scannerState.lastBlockScanned :
               /\ \A k \in EventStreams : <<b, k>> \in covered
               /\ \A idx \in 1 .. Len(chain[b + 1]) :
                     LET log == LogOf(chain, b, idx)
                     IN  hasKey(TableOf(log.kind), createRow(log)))
    /\ [][(scannerState.exists /\ scannerState' # scannerState) =>
             /\ scanPc = "updateState"
             /\ scanFrom = scannerState.lastBlockScanned + 1
             /\ scannerState'.lastBlockScanned = scanTo
             /\ scanTo > scannerState.lastBlockScanned]_vars
    /\ [][(~isScanning /\ isScanning') =>
             scanTo' <= getBlockNumber(chain)]_vars

\* The cursor has moved twice and sits at the chain head; the blocks it
\* passed held events of two streams.
C32_Witness ==
    /\ scannerState.exists
    /\ scannerState.lastBlockScanned = getBlockNumber(chain)
    /\ scannerState.lastBlockScanned >= START_BLOCK + 2
    /\ scanPc = "idle"
    /\ Len(deposits) >= 1
    /\ Len(withdrawals) >= 1

\* C33 as stated: for every stored deposit row d whose leafIndex lies inside
\* the in-memory tree, leaves[d.leafIndex] is d.commitment, whenever the
\* scanner began.
C33_ReplicaLeafAlignment ==
    \A i \in 1 .. Len(deposits) :
        deposits[i].leafIndex < Len(leaves)
            => leaves[deposits[i].leafIndex + 1] = Fe(deposits[i].commitment)

\* C34 as stated: when rebuilds overlap, each rebuild that completes leaves
\* a tree at least as recent as the tree it replaces: getLeafCount never
\* decreases.
C34_RebuildMonotone == [][Len(leaves') >= Len(leaves)]_vars

\* The stored announcement is one a sender made from the recipient's
\* meta-address with generateStealthAddress.
DerivedFromKeys(row) ==
    \E e \in Bytes32 :
        LET info == generateStealthAddress(metaAddress, 1, e)
        IN  /\ info.ok
            /\ info.stealthAddress = row.stealthAddress
            /\ info.ephemeralPublicKey = row.ephemeralPubKey

InRequestedRange(b, fromBlock, toBlock) ==
    /\ fromBlock = Undefined \/ b >= fromBlock
    /\ toBlock = Undefined \/ b <= toBlock

\* C35: scanAnnouncementsIndexed returns every indexed scheme-1
\* announcement of the requested block range that was made for the
\* caller's keys, however many announcements the indexer holds.
C35_ScanComplete ==
    (payments.done /\ payments.by = "sdk") =>
        \A i \in 1 .. payments.held :
            (/\ indexed[i].schemeId = 1
             /\ InRequestedRange(indexed[i].blockNumber, payments.fromBlock,
                                 payments.toBlock)
             /\ DerivedFromKeys(indexed[i]))
            => \E p \in payments.found : p.id = i

\* C36: every payment a scan returns is a scheme-1 announcement of the
\* answer whose announced address passed checkStealthAddress with the
\* returned stealthPrivateKey; no announcement makes the scan throw, and
\* every announcement of the answer that was made for the caller's keys
\* (and, on the receive page, holds a balance) is returned, whatever the
\* other announcements of the answer carry.
C36_ScanSoundAndRobust ==
    payments.done =>
        /\ ~payments.thrown
        /\ \A p \in payments.found :
              /\ p.id \in payments.response
              /\ indexed[p.id].schemeId = 1
              /\ indexed[p.id].stealthAddress = p.stealthAddress
              /\ indexed[p.id].ephemeralPubKey = p.ephemeralPublicKey
              /\ checkStealthAddress(p.stealthPrivateKey, p.stealthAddress)
                     = "match"
        /\ \A i \in payments.response \cap payments.funded :
              (indexed[i].schemeId = 1 /\ DerivedFromKeys(indexed[i]))
              => \E p \in payments.found : p.id = i

\* A scan passed over a malformed announcement and then found a payment.
C36_Witness ==
    /\ payments.done
    /\ payments.by = "sdk"
    /\ \E i, j \in payments.response :
         /\ i > j
         /\ indexed[i].ephemeralPubKey = BadKey
         /\ \E p \in payments.found : p.id = j

\* The scanner's cursor is at the chain head and every Deposit event of a
\* block after START_BLOCK is a row of the deposit table.
Ingested ==
    /\ scannerState.exists
    /\ scannerState.lastBlockScanned = getBlockNumber(chain)
    /\ LET logs == getLogs(chain, "Deposit", START_BLOCK + 1,
                           getBlockNumber(chain))
       IN  \A i \in 1 .. Len(logs) : hasKey(deposits, createRow(logs[i]))

\* No commitment is deposited twice on the chain.
NoCommitmentTwice ==
    LET logs == getLogs(chain, "Deposit", 0, getBlockNumber(chain))
    IN  \A i, j \in 1 .. Len(logs) :
            logs[i].commitment = logs[j].commitment => i = j

\* C37: once the chain head stops advancing, the scanner's cursor
\* eventually equals the head and every Deposit event emitted after
\* START_BLOCK is eventually in the deposit table, whatever deposits the
\* pool accepted (one commitment deposited twice included).
C37_IngestionLive ==
    \A h \in 0 .. MaxHead :
        <>[](getBlockNumber(chain) = h)
            => <>(getBlockNumber(chain) = h /\ Ingested)

\* The same for the chains on which no commitment is deposited twice.
IngestionLiveWithoutDuplicates ==
    \A h \in 0 .. MaxHead :
        <>[](getBlockNumber(chain) = h /\ NoCommitmentTwice)
            => <>(getBlockNumber(chain) = h /\ Ingested)

\* C38: no two leaves of the pool's tree hold the same commitment.
C38_CommitmentsUnique ==
    \A i, j \in 1 .. Len(chainLeaves) :
        chainLeaves[i] = chainLeaves[j] => i = j

\* C39: while the recipient's callback of a payout runs, the payout's
\* nullifierHash is recorded as used and the guard is entered; a call to
\* withdraw or deposit made from the callback reverts, pays nothing and
\* inserts no leaf.
C39_ChecksEffectsInteractions ==
    /\ payout.active =>
          /\ isNullifierUsed(payout.nullifierHash)
          /\ guardStatus = "ENTERED"
    /\ nested.done =>
          /\ nested.used
          /\ nested.outcome = "ReentrancyGuardReentrantCall"
          /\ nested.paid = 0
          /\ nested.inserted = 0

\* The callback of a payout called withdraw for the payout's own
\* nullifierHash while the pool still held the funds of another deposit.
C39_Witness ==
    /\ payout.active
    /\ nested.done
    /\ nested.op = "withdraw"
    /\ nested.nullifierHash = payout.nullifierHash
    /\ poolBalance >= payout.amount

====
